---------------------------- MODULE Spec2Model ----------------------------
(***************************************************************************)
(* State-machine model of the AGF2 drivers of vayesta/eagf2:               *)
(*   - RAGF2.fock_loop   (ragf2.py 663-743), the Fock / chemical-potential *)
(*     loop,                                                               *)
(*   - RAGF2.kernel      (ragf2.py 1194-1297), the outer driver,           *)
(*   - EAGF2.kernel      (eagf2.py 218-372), the embedded outer driver.    *)
(*                                                                         *)
(* Numerical data are abstracted to small integers.  A Dyson spectrum is   *)
(* the sequence of the electron weights 2*|v[:nact,i]|^2 of its poles, in  *)
(* ascending order of energy; pole i has the energy PoleEnergy(i).  The    *)
(* density-matrix change, the energies and the moment deltas are integers  *)
(* compared with integer tolerances by the same comparisons as the code.   *)
(***************************************************************************)
EXTENDS Integers, Sequences, FiniteSets, TLC

\* ------------------------------------------------------------------ bounds
\* poles of a Dyson spectrum: nact physical + naux auxiliary (ragf2.py 645)
NPoles == 3
\* largest value of max_cycle_outer explored
MaxCycleOuter == 2
\* largest value of max_cycle_inner explored
MaxCycleInner == 2
\* largest value of max_cycle explored
MaxCycle == 3
\* largest total energy produced by the numerics (energies are 0..MaxE)
MaxE == 1
\* largest number of fragments of the embedded driver
MaxFrag == 3
\* physical dimension nphys of the moment matrices handed to
\* _build_se_from_moments
NPhys == 2
\* largest number of MPI workers
MaxWorkers == 3
\* largest eo.size, the length of the outer contraction loop
MaxEo == 4
\* largest number of cluster-solver runs made by one chemical-potential
\* search
MaxEvals == 3
\* largest number of entries of external_corrections
MaxCorr == 3

\* ------------------------------------------------- options (scaled units)
\* RAGF2Options.conv_tol_rdm1
ConvTolRdm1 == 1
\* RAGF2Options.conv_tol_nelec
ConvTolNelec == 1
\* RAGF2Options.conv_tol_nelec_factor = 1e-2, as the fraction
\* NelecFactorNum / NelecFactorDen
NelecFactorNum == 1
NelecFactorDen == 100
\* RAGF2Options.conv_tol
ConvTol == 1
\* RAGF2Options.weight_tol
WeightTol == 1
\* default chempot=0.0 of _build_se_from_moments; pole energies are counted
\* from it
SeChempot == 0
\* RAGF2Options.conv_tol_t0
ConvTolT0 == 2
\* RAGF2Options.conv_tol_t1
ConvTolT1 == 1

\* -------------------------------------------------------- pure operators
Abs(x) == IF x < 0 THEN -x ELSE x

\* number of active orbitals (RAGF2.nact); one auxiliary pole is coupled
Nact == NPoles - 1

\* density-matrix changes the numerics can produce: below and at the
\* tolerance conv_tol_rdm1
RdmChanges == 0..ConvTolRdm1

\* changes of the zeroth and first moment the numerics can produce: just
\* below and at the tolerance conv_tol_t0 resp. conv_tol_t1
Moment0Changes == (ConvTolT0 - 1)..ConvTolT0

Moment1Changes == (ConvTolT1 - 1)..ConvTolT1

\* nelec = (self.nocc - self.frozen[0]) * 2 ; the model is half filled
Nelec == 2 * (Nact \div 2)

\* eigenvalue of pole i (np.linalg.eigh returns them ascending)
PoleEnergy(i) == 2 * i - (NPoles + 1)

RECURSIVE SumTo(_, _)
\* sum of the electron weights of the poles 1..k of spectrum s
SumTo(s, k) == IF k = 0 THEN 0 ELSE s[k] + SumTo(s, k - 1)

\* the loop of binsearch_chempot: first i > 0 (0-based) with
\* sum0 <= nelec <= sum1, else the last index.  1-based here.
BinBreak(s) ==
    LET hits == { i \in 2..Len(s) : SumTo(s, i - 1) <= Nelec /\ Nelec <= SumTo(s, i) }
    IN  IF hits = {} THEN Len(s)
        ELSE CHOOSE i \in hits : \A j \in hits : i <= j

\* number of poles below the Fermi level chosen by binsearch_chempot
BinHomo(s) ==
    LET i == BinBreak(s)
    IN  IF Abs(SumTo(s, i - 1) - Nelec) < Abs(SumTo(s, i) - Nelec)
        THEN i - 1 ELSE i

\* agf2.chempot.binsearch_chempot((w, v), nact, nelec) -> (chempot, error)
binsearch_chempot(s) ==
    LET h == BinHomo(s)
    IN  [chempot |-> PoleEnergy(h) + 1, error |-> Nelec - SumTo(s, h)]

\* spectra the eigensolver can return: weights 0..2 per pole (occupancy 2),
\* total weight 2*nact (orthonormal eigenvectors), and a Fermi level exists
Spectra ==
    { s \in [1..NPoles -> 0..2] :
        /\ SumTo(s, NPoles) = 2 * Nact
        /\ BinHomo(s) >= 1
        /\ BinHomo(s) < NPoles }

\* number of poles of g below its chemical potential: occupied poles are
\* those with energy < chempot (pyscf GreensFunction.get_occupied)
NOccupied(g) == Cardinality({ i \in 1..Len(g.w) : PoleEnergy(i) < g.chempot })

\* trace of GreensFunction.make_rdm1: 2 * sum of |coupling column|^2 over the
\* occupied poles.  The coupling is v[:nact] for a projected Green's
\* function (column weight = physical weight) and the full orthonormal v
\* for an unprojected one (column weight = 1)
NelecOf(g) ==
    IF g.proj THEN SumTo(g.w, NOccupied(g)) ELSE 2 * NOccupied(g)


\* ---------------------------------------------------------------- state
VARIABLES
    opts,          \* RAGF2Options of the solver (constant during a run)
    driver,        \* entry point called: "RAGF2", "EAGF2" or "fock_loop";
                   \* "ADC": RAGF2.kernel with opts.as_adc
    fpc,           \* position inside fock_loop
    gf,            \* fock_loop local gf
    se,            \* fock_loop local se
    project_gf,    \* fock_loop argument
    return_fock,   \* fock_loop argument
    niter1,        \* outer for-variable of fock_loop (0: loop not entered)
    niter2,        \* inner for-variable of fock_loop (0: unbound)
    inner,         \* inner iterations done in the current outer cycle
    w,             \* eigenpairs (w, v) of the last solve_dyson; <<>>: unbound
    nerr,          \* <<error>> of the last binsearch_chempot; <<>>: unbound
    derr,          \* <<density-matrix change>>; <<>>: unbound
    fl_converged,  \* fock_loop local converged
    opt_tol,       \* tol handed to the last minimize_chempot as the fraction
                   \* <<numerator, denominator>>; <<>>: none yet
    events,        \* numerical operations performed by this fock_loop call
    cycles,        \* per finished outer cycle: were both criteria met
    ret,           \* tuple returned by fock_loop (len 0: nothing returned)
    exc,           \* exception raised ("none": no exception)
    kpc,           \* position inside kernel ("none": kernel not called)
    ncycle,        \* bodies of the outer for loop entered so far
    converged,     \* kernel local converged; in RAGF2 also self.converged,
                   \* assigned together with it (ragf2.py 285, 1225, 1269)
    converged_prev, \* kernel local converged_prev (RAGF2.kernel)
    e_tot,         \* solver.e_tot = e_1b + e_2b
    deltas,        \* result of _convergence_checks; <<>>: unbound
    met,           \* per finished outer iteration: were the three criteria met
    self_gf,       \* solver.gf
    self_se,       \* solver.se
    se_src,        \* where solver.se comes from: "none", "empty", "built", "diis"
    se_prev,       \* kernel local se_prev = copy.deepcopy(solver.se)
    results        \* value returned by kernel (set: FALSE until it returns)

\* state of the fragment loop of EAGF2.kernel (eagf2.py 228-334)
VARIABLES
    fragments,       \* self.fragments: per fragment 0 (sym_parent is None) or
                     \* the id of its symmetry parent; a fragment's id is its
                     \* position in the list
    e_max_cycle,     \* self.opts.max_cycle of the embedded driver
    epc,             \* position inside EAGF2.kernel ("none": not called)
    niter,           \* for-variable of the outer loop
    x,               \* for-variable of the fragment loop
    cluster_results, \* self.cluster_results: id -> iteration that stored the
                     \* entry, -1: no entry
    frag_log,        \* per fragment visit: iteration, fragment, "kernel" or
                     \* "reuse", id whose stored result is used
    c_active,        \* id of the fragment whose results.c_active the local
                     \* c_active holds; 0: unbound
    e_conv,          \* EAGF2.kernel local converged
    e_results,       \* self.results: "None" or the converged flag stored
    e_exc            \* exception that left EAGF2.kernel ("none": no exception)

evars == <<fragments, e_max_cycle, epc, niter, x, cluster_results, frag_log,
           c_active, e_conv, e_results, e_exc>>

\* EAGF2.kernel is not running
FragIdle ==
    /\ fragments = <<>>
    /\ e_max_cycle = 0
    /\ epc = "none"
    /\ niter = 0
    /\ x = 0
    /\ cluster_results = <<>>
    /\ frag_log = <<>>
    /\ c_active = 0
    /\ e_conv = FALSE
    /\ e_results = "None"
    /\ e_exc = "none"

\* state of the kernel installed by ClusterSolver.optimize_cpt
\* (solver/solver2.py 113-208)
VARIABLES
    cpt_pc,     \* position inside the installed kernel ("none": not called)
    ntry,       \* root-finder attempts made so far (for-variable ntry + 1)
    bounds,     \* the array bounds = [lower, upper], in units of
                \* cpt_radius / 2^CptTries; <<>>: unbound
    attempts,   \* per brentq call: the interval handed over and how it ended
    errmsg,     \* interval named in the final error message; <<>>: none
    cpt_exc     \* exception that left the kernel ("none": no exception)

cvars == <<cpt_pc, ntry, bounds, attempts, errmsg, cpt_exc>>

\* the installed kernel is not running
CptIdle ==
    /\ cpt_pc = "none"
    /\ ntry = 0
    /\ bounds = <<>>
    /\ attempts = <<>>
    /\ errmsg = <<>>
    /\ cpt_exc = "none"

\* state of the self-energy construction from moments
\* (ragf2.py 405-445, 581-610)
VARIABLES
    ppc,        \* position: "none", "start", "t_occ", "moments", "built",
                \* "combined", "split"
    piter,      \* self-energy constructions started
    t_occ,      \* hole-sector moments t[0], as the nphys eigenpairs
                \* (energy e, squared coupling norm wt) they define
    t_vir,      \* particle-sector moments t[1], likewise
    se_occ,     \* _build_se_from_moments(t[0], chempot)
    se_vir,     \* _build_se_from_moments(t[1], chempot)
    se_all,     \* _combine_se(se_occ, se_vir)
    split_occ,  \* se.get_occupied() of the combined self-energy
    split_vir   \* se.get_virtual() of the combined self-energy

pvars == <<ppc, piter, t_occ, t_vir, se_occ, se_vir, se_all, split_occ,
           split_vir>>

\* agf2.SelfEnergy(e, v, chempot=chempot) as the sequence of its poles
PoleSelfEnergy(poles, chempot) == [poles |-> poles, chempot |-> chempot]

\* no self-energy is under construction
PolesIdle ==
    /\ ppc = "none"
    /\ piter = 0
    /\ t_occ = <<>>
    /\ t_vir = <<>>
    /\ se_occ = PoleSelfEnergy(<<>>, SeChempot)
    /\ se_vir = PoleSelfEnergy(<<>>, SeChempot)
    /\ se_all = PoleSelfEnergy(<<>>, SeChempot)
    /\ split_occ = PoleSelfEnergy(<<>>, SeChempot)
    /\ split_vir = PoleSelfEnergy(<<>>, SeChempot)

\* state of the workers in the explicit loop of _build_moments
\* (ragf2.py 368-402)
VARIABLES
    mpi_size,   \* mpi_helper.size
    eo_size,    \* eo.size
    wpc,        \* per worker: "none", "loop", "barrier", "allreduce",
                \* "reducing", "returned"
    wpos,       \* per worker: position in its mpi_helper.nrange(eo.size)
    wt,         \* per worker: its moment tensor t
    sendbuf,    \* per worker: what it handed to the all-reduce, -1 if nothing
    contracted  \* log of <<rank, i>> in the order the loop bodies ran

mpivars == <<mpi_size, eo_size, wpc, wpos, wt, sendbuf, contracted>>

\* no moment construction is running
MpiIdle ==
    /\ mpi_size = 0
    /\ eo_size = 0
    /\ wpc = <<>>
    /\ wpos = <<>>
    /\ wt = <<>>
    /\ sendbuf = <<>>
    /\ contracted = <<>>

\* state of the evaluations electron_err(cpt) made by the kernel that
\* ClusterSolver.optimize_cpt installs (solver/solver2.py 113-208)
VARIABLES
    ee_pc,          \* position: "none", "idle" (in the kernel, between two
                    \* evaluations), "shifted", "solved", "returned", "raised"
    v_ext,          \* self.opts.v_ext: "None", or the array object it names:
                    \* "caller" (the array set by the caller) or "fresh" (an
                    \* array allocated by electron_err)
    caller_arr,     \* content of the caller's array, as the multiple of
                    \* p_frag added to the potential it held at the start
    fresh_arr,      \* content of the array allocated by electron_err
    v_ext0,         \* electron_err local v_ext0: "None", "caller" or "fresh"
    v_ext_before,   \* content of self.opts.v_ext when the evaluation began
                    \* (<<>>: None)
    cpt,            \* the trial chemical potential of the evaluation
    solver_converged, \* self.converged after kernel_orig
    nruns,          \* runs of kernel_orig so far; a run is known by its number
    ee_result,      \* kernel local result (nonlocal in electron_err); 0: None
    ee_results,     \* electron_err local results: the run of kernel_orig that
                    \* returned it; 0: unbound
    err0_set,       \* err0 is not None: the first run returned an error
    accepted,       \* run whose electron error was within tolerance; 0: none
    ee_ret          \* <<value returned by the kernel>>; <<>>: nothing returned

xvars == <<ee_pc, v_ext, caller_arr, fresh_arr, v_ext0, v_ext_before, cpt,
           solver_converged, nruns, ee_result, ee_results, err0_set,
           accepted, ee_ret>>

\* no chemical-potential search is running
EvalIdle ==
    /\ ee_pc = "none"
    /\ v_ext = "None"
    /\ caller_arr = 0
    /\ fresh_arr = 0
    /\ v_ext0 = "None"
    /\ v_ext_before = <<>>
    /\ cpt = 0
    /\ solver_converged = FALSE
    /\ nruns = 0
    /\ ee_result = 0
    /\ ee_results = 0
    /\ err0_set = FALSE
    /\ accepted = 0
    /\ ee_ret = <<>>

\* state of the loop of externally_correct (solver/coupling.py 486-597)
VARIABLES
    d_pc,                  \* position: "none", "loop", "returned", "raised"
    external_corrections,  \* the correction type of each entry
    dpos,                  \* entries processed so far
    calls                  \* per processed entry: its type, the routine that
                           \* computed its delta amplitudes, the value of
                           \* include_t3v, and whether the T3*V term was
                           \* added afterwards from the parent's integrals

dvars == <<d_pc, external_corrections, dpos, calls>>

\* externally_correct is not running
CorrIdle ==
    /\ d_pc = "none"
    /\ external_corrections = <<>>
    /\ dpos = 0
    /\ calls = <<>>

\* state of the ranks calling the kernel wrapped by scf_with_mpi
\* (mpi/scf.py 7-46)
VARIABLES
    scf_mpi,    \* truth value of the argument mpi
    scf_size,   \* number of ranks
    mpi_rank,   \* argument mpi_rank: the rank that runs the SCF
    has_df,     \* hasattr(mf, 'with_df')
    spc,        \* per rank: "init", "ready", "barrier", "bcast", "returned",
                \* "raised"
    wrapped,    \* per rank: mf.kernel is mpi_kernel and mf.with_mpi is set
    mfdata,     \* per rank: res and the attributes of mf, each "stale"
                \* (before the SCF) or "scf" (result of the SCF run)
    bpos,       \* per rank: broadcasts completed
    kruns       \* ranks on which kernel_orig ran, in order

scfvars == <<scf_mpi, scf_size, mpi_rank, has_df, spc, wrapped, mfdata, bpos,
             kruns>>

\* no rank is in scf_with_mpi
ScfIdle ==
    /\ scf_mpi = FALSE
    /\ scf_size = 0
    /\ mpi_rank = 0
    /\ has_df = FALSE
    /\ spc = <<>>
    /\ wrapped = <<>>
    /\ mfdata = <<>>
    /\ bpos = <<>>
    /\ kruns = <<>>

\* the variables of the programs modelled beside the solver
svars == <<evars, cvars, pvars, mpivars, xvars, dvars, scfvars>>

fvars == <<fpc, gf, se, project_gf, return_fock, niter1, niter2, inner, w,
           nerr, derr, fl_converged, opt_tol, events, cycles, ret, exc>>

kvars == <<kpc, ncycle, converged, converged_prev, e_tot, deltas, met,
           self_gf, self_se, se_src, se_prev, results>>

vars == <<opts, driver, fpc, gf, se, project_gf, return_fock, niter1, niter2,
          inner, w, nerr, derr, fl_converged, opt_tol, events, cycles, ret,
          exc, kpc, ncycle, converged, converged_prev, e_tot, deltas, met,
          self_gf, self_se, se_src, se_prev, results, svars>>

\* agf2.GreensFunction(w, v[:nact] or v, chempot=...) built from the
\* eigenpairs of the k-th solve_dyson of the running fock_loop call
GreensFunction(wv, k, chempot, proj) ==
    [w |-> wv, chempot |-> chempot, solve |-> k, proj |-> proj]

\* build_init_greens_function: bare orbital energies, identity coupling,
\* chemical potential midway between HOMO and LUMO
build_init_greens_function ==
    [w |-> [i \in 1..Nact |-> 2], chempot |-> 2 * (Nact \div 2) - NPoles,
     solve |-> 0, proj |-> TRUE]

\* a self-energy: its chemical potential and the outer iteration that built it
SelfEnergy(chempot, built) == [chempot |-> chempot, built |-> built]

NoReturn ==
    [len |-> 0, gf |-> build_init_greens_function, se |-> SelfEnergy(0, 0),
     converged |-> FALSE]

\* number of events of kind e logged by the running fock_loop call
RECURSIVE CountIn(_, _)
CountIn(evs, e) ==
    IF evs = <<>> THEN 0
    ELSE (IF Head(evs) = e THEN 1 ELSE 0) + CountIn(Tail(evs), e)

NSolve == CountIn(events, "solve_dyson")

\* solve_dyson evaluates np.min/np.max of w[w < chempot] and of
\* w[w >= chempot] for its log line; either one empty raises ValueError
DysonLogFails(s, chempot) ==
    \/ { i \in 1..Len(s) : PoleEnergy(i) < chempot } = {}
    \/ { i \in 1..Len(s) : PoleEnergy(i) >= chempot } = {}

\* chemical potentials a caller can hand in with the self-energy
InputChempots == { PoleEnergy(h) + 1 : h \in 0..NPoles }

\* the locals of a fresh fock_loop frame
FockLoopCall(gfArg, seArg, pg, rf) ==
    /\ fpc' = "call"
    /\ gf' = gfArg
    /\ se' = seArg
    /\ project_gf' = pg
    /\ return_fock' = rf
    /\ niter1' = 0
    /\ niter2' = 0
    /\ inner' = 0
    /\ w' = <<>>
    /\ nerr' = <<>>
    /\ derr' = <<>>
    /\ fl_converged' = FALSE
    /\ opt_tol' = <<>>
    /\ events' = <<>>
    /\ cycles' = <<>>
    /\ ret' = NoReturn
    /\ exc' = "none"

\* the exception leaves fock_loop: nothing is returned
Raise(name) ==
    /\ fpc' = "raised"
    /\ exc' = name

\* ------------------------------------------------------------ fock_loop
\* ragf2.py 663-694: entry, dispatch on opts.fock_loop
FL_Enter ==
    /\ fpc = "call"
    /\ fpc' = IF opts.fock_loop THEN "outer_head" ELSE "dyson_only"
    /\ UNCHANGED kvars
    /\ UNCHANGED svars
    /\ UNCHANGED <<opts, driver, opt_tol, gf, se, project_gf, return_fock, niter1,
                   niter2, inner, w, nerr, derr, fl_converged, events,
                   cycles, ret, exc>>

\* ragf2.py 678-682: the single Dyson solve of the disabled loop
FL_DysonOnlySolve ==
    /\ fpc = "dyson_only"
    /\ \E s \in Spectra :
         IF DysonLogFails(s, se.chempot)
         THEN /\ Raise("ValueError")
              /\ events' = Append(events, "solve_dyson")
              /\ UNCHANGED <<gf, w>>
         ELSE /\ w' = s
              /\ events' = Append(events, "solve_dyson")
              /\ gf' = GreensFunction(s, NSolve + 1, se.chempot, project_gf)
              /\ fpc' = "dyson_only_chempot"
              /\ exc' = exc
    /\ UNCHANGED kvars
    /\ UNCHANGED svars
    /\ UNCHANGED <<opts, driver, opt_tol, se, project_gf, return_fock, niter1, niter2,
                   inner, nerr, derr, fl_converged, cycles, ret>>

\* variant: the bisected chemical potential reaches gf but not se
DysonOnlyResult_GfOnly(g, s, mu) ==
    [len |-> 3, gf |-> [g EXCEPT !.chempot = mu], se |-> s,
     converged |-> TRUE]

\* ragf2.py 683-684: gf.chempot = se.chempot = binsearch_chempot(...)[0];
\* return gf, se, True  (three values whatever return_fock is)
DysonOnlyResult(g, s, mu) ==
    [len |-> 3, gf |-> [g EXCEPT !.chempot = mu],
     se |-> [s EXCEPT !.chempot = mu], converged |-> TRUE]

\* ragf2.py 683-684: one bisection, chempot assigned to gf and se, return
FL_DysonOnlyReturn ==
    /\ fpc = "dyson_only_chempot"
    /\ LET r == DysonOnlyResult(gf, se, binsearch_chempot(w).chempot)
       IN  /\ gf' = r.gf
           /\ se' = r.se
           /\ ret' = r
    /\ events' = Append(events, "binsearch_chempot")
    /\ fpc' = "returned"
    /\ UNCHANGED kvars
    /\ UNCHANGED svars
    /\ UNCHANGED <<opts, driver, opt_tol, project_gf, return_fock, niter1, niter2,
                   inner, w, nerr, derr, fl_converged, cycles, exc>>

\* agf2.chempot.minimize_chempot(se, fock, nelec, x0=se.chempot, ...): shifts
\* the auxiliary energies and leaves in se the chemical potential bisected
\* on the spectrum s of the shifted self-energy (ragf2.py 697-702)
minimize_chempot(seArg, s) ==
    [seArg EXCEPT !.chempot = binsearch_chempot(s).chempot]

\* variant: the final tolerance is handed down as it is
ChempotTol_NoFactor == <<ConvTolNelec, 1>>

\* ragf2.py 700: tol = conv_tol_nelec * conv_tol_nelec_factor, as a fraction
ChempotTol == <<ConvTolNelec * NelecFactorNum, NelecFactorDen>>

\* ragf2.py 696-702: head of the outer for loop and the mu search
FL_OuterHead ==
    /\ fpc = "outer_head"
    /\ IF niter1 < opts.max_cycle_outer
       THEN /\ niter1' = niter1 + 1
            /\ \E s \in Spectra : se' = minimize_chempot(se, s)
            /\ opt_tol' = ChempotTol
            /\ events' = Append(events, "minimize_chempot")
            /\ inner' = 0
            /\ fpc' = IF opts.max_cycle_inner >= 1 THEN "inner_head"
                      ELSE "outer_tail"
       ELSE /\ fpc' = "after_loops"
            /\ UNCHANGED <<niter1, se, events, inner, opt_tol>>
    /\ UNCHANGED kvars
    /\ UNCHANGED svars
    /\ UNCHANGED <<opts, driver, gf, project_gf, return_fock, niter2, w, nerr,
                   derr, fl_converged, cycles, ret, exc>>

\* variant: the Green's function is built on the first solve only and kept
InnerGreensFunction_KeepFirst(s, k, chempot) ==
    IF gf.solve > 0 THEN gf ELSE GreensFunction(s, k, chempot, TRUE)

\* variant: the Green's function takes the chemical potential that se
\* carried before the bisection
InnerGreensFunction_OldChempot(s, k, chempot) ==
    GreensFunction(s, k, se.chempot, TRUE)

\* ragf2.py 707: the Green's function of an inner iteration
InnerGreensFunction(s, k, chempot) == GreensFunction(s, k, chempot, TRUE)

\* ragf2.py 724: break test of the inner loop
InnerBreak(d) == Abs(d) < ConvTolRdm1

\* ragf2.py 704-725: one inner iteration: Dyson solve, bisection, new
\* Green's function, Fock rebuild (damping and DIIS act on the Fock matrix
\* only), density-matrix change d, break test
FL_Inner ==
    /\ fpc = "inner_head"
    /\ \E s \in Spectra, d \in RdmChanges :
         IF DysonLogFails(s, se.chempot)
         THEN /\ Raise("ValueError")
              /\ events' = Append(events, "solve_dyson")
              /\ UNCHANGED <<gf, se, niter2, inner, w, nerr, derr>>
         ELSE LET b == binsearch_chempot(s)
              IN  /\ niter2' = inner + 1
                  /\ inner' = inner + 1
                  /\ w' = s
                  /\ se' = [se EXCEPT !.chempot = b.chempot]
                  /\ nerr' = <<b.error>>
                  /\ gf' = InnerGreensFunction(s, NSolve + 1, b.chempot)
                  /\ events' = events \o
                        <<"solve_dyson", "binsearch_chempot", "get_fock">>
                  /\ derr' = <<d>>
                  /\ fpc' = IF InnerBreak(d) \/ inner + 1 >= opts.max_cycle_inner
                            THEN "outer_tail" ELSE "inner_head"
                  /\ exc' = exc
    /\ UNCHANGED kvars
    /\ UNCHANGED svars
    /\ UNCHANGED <<opts, driver, opt_tol, project_gf, return_fock, niter1,
                   fl_converged, cycles, ret>>

\* variant: the electron-count error is not tested
OuterConverged_NoNelec(d, n) == Abs(d) < ConvTolRdm1

\* ragf2.py 729: convergence test of an outer cycle
OuterConverged(d, n) == Abs(d) < ConvTolRdm1 /\ Abs(n) < ConvTolNelec

\* ragf2.py 727-731: the log line reads niter2, nerr and derr, which are
\* unbound when the inner loop never ran; then the convergence test
FL_OuterTail ==
    /\ fpc = "outer_tail"
    /\ IF niter2 = 0
       THEN /\ Raise("UnboundLocalError")
            /\ UNCHANGED <<fl_converged, cycles>>
       ELSE /\ cycles' = Append(cycles,
                   derr[1] < ConvTolRdm1 /\ Abs(nerr[1]) < ConvTolNelec)
            /\ IF OuterConverged(derr[1], nerr[1])
               THEN /\ fl_converged' = TRUE
                    /\ fpc' = "after_loops"
               ELSE /\ fpc' = "outer_head"
                    /\ UNCHANGED fl_converged
            /\ exc' = exc
    /\ UNCHANGED kvars
    /\ UNCHANGED svars
    /\ UNCHANGED <<opts, driver, opt_tol, gf, se, project_gf, return_fock, niter1,
                   niter2, inner, w, nerr, derr, events, ret>>

\* ragf2.py 733-734: the unprojected Green's function of the last eigenpairs
FullGreensFunction(s, k, chempot) == GreensFunction(s, k, chempot, FALSE)

\* ragf2.py 733-743: optional unprojected Green's function, return
FL_Return ==
    /\ fpc = "after_loops"
    /\ IF ~project_gf /\ w = <<>>
       THEN /\ Raise("UnboundLocalError")
            /\ UNCHANGED <<gf, ret>>
       ELSE LET g == IF project_gf THEN gf
                     ELSE FullGreensFunction(w, NSolve, se.chempot)
            IN  /\ gf' = g
                /\ ret' = [len |-> IF return_fock THEN 4 ELSE 3, gf |-> g,
                           se |-> se, converged |-> fl_converged]
                /\ fpc' = "returned"
                /\ exc' = exc
    /\ UNCHANGED kvars
    /\ UNCHANGED svars
    /\ UNCHANGED <<opts, driver, opt_tol, se, project_gf, return_fock, niter1, niter2,
                   inner, w, nerr, derr, fl_converged, events, cycles>>

fock_loop ==
    \/ FL_Enter
    \/ FL_DysonOnlySolve
    \/ FL_DysonOnlyReturn
    \/ FL_OuterHead
    \/ FL_Inner
    \/ FL_OuterTail
    \/ FL_Return

\* the frame of fock_loop is gone once its caller has taken the result
FockLoopIdle ==
    /\ fpc' = "idle"
    /\ gf' = build_init_greens_function
    /\ se' = SelfEnergy(0, 0)
    /\ project_gf' = TRUE
    /\ return_fock' = FALSE
    /\ niter1' = 0
    /\ niter2' = 0
    /\ inner' = 0
    /\ w' = <<>>
    /\ nerr' = <<>>
    /\ derr' = <<>>
    /\ fl_converged' = FALSE
    /\ opt_tol' = <<>>
    /\ events' = <<>>
    /\ cycles' = <<>>
    /\ ret' = NoReturn

\* ------------------------------------------------------- outer drivers
\* self.mf.e_tot, the mean-field total energy
mf_e_tot == MaxE

\* _convergence_checks (ragf2.py 1170-1191): e_prev = e_prev or mf.e_tot;
\* [|e_tot - e_prev|, |t0 - t0_prev|, |t1 - t1_prev|]; the moment norms
\* d0 and d1 come from the numerics
_convergence_checks(e_new, e_prev, d0, d1) ==
    << Abs(e_new - (IF e_prev = 0 THEN mf_e_tot ELSE e_prev)), d0, d1 >>

\* variant: only the energy change is tested
CriteriaMet_EnergyOnly(d) == d[1] < ConvTol

\* ragf2.py 1263-1265, eagf2.py 330-332: the three tolerance tests
CriteriaMet(d) == d[1] < ConvTol /\ d[2] < ConvTolT0 /\ d[3] < ConvTolT1

\* RAGF2.kernel 1194-1227 / EAGF2.kernel 228-256: initial Green's function
\* and self-energy, converged = False, converged_prev = False
K_Start ==
    /\ kpc = "start"
    /\ IF driver = "RAGF2"
       THEN /\ self_gf' = build_init_greens_function
            /\ self_se' = SelfEnergy(build_init_greens_function.chempot, 0)
            /\ se_src' = "built"
       ELSE /\ self_gf' = self_gf
            /\ self_se' = SelfEnergy(0, 0)
            /\ se_src' = "empty"
    /\ converged' = FALSE
    /\ converged_prev' = FALSE
    /\ kpc' = "loop"
    /\ UNCHANGED svars
    /\ UNCHANGED <<opts, driver, ncycle, e_tot, deltas, met, se_prev,
                   results>>
    /\ UNCHANGED fvars

\* number of bodies the outer for loop can run: range(1, max_cycle+1) in
\* RAGF2.kernel (ragf2.py 1228), range(0, max_cycle+1) in EAGF2.kernel
\* (eagf2.py 257)
LoopBudget ==
    IF driver = "RAGF2" THEN opts.max_cycle ELSE opts.max_cycle + 1

\* ragf2.py 1228-1238: loop head, se_prev and e_prev are taken, fock_loop
\* is called with (gf, se)
R_IterBegin ==
    /\ kpc = "loop"
    /\ driver = "RAGF2"
    /\ ncycle < LoopBudget
    /\ ncycle' = ncycle + 1
    /\ kpc' = "in_fock"
    /\ se_prev' = self_se
    /\ FockLoopCall(self_gf, self_se, TRUE, FALSE)
    /\ UNCHANGED svars
    /\ UNCHANGED <<opts, driver, converged, converged_prev, e_tot, deltas,
                   met, self_gf, self_se, se_src, results>>

\* variant: a failed iteration leaves the latch converged_prev set
RAGF2Policy_NoClear(ok, extra, prev) ==
    IF ok
    THEN IF extra /\ ~prev
         THEN [converged |-> FALSE, converged_prev |-> TRUE, break |-> FALSE]
         ELSE [converged |-> TRUE, converged_prev |-> prev, break |-> TRUE]
    ELSE [converged |-> FALSE, converged_prev |-> prev, break |-> FALSE]

\* ragf2.py 1266-1273: the extra-cycle policy; returns the new
\* (converged, converged_prev) and whether the loop is left
RAGF2Policy(ok, extra, prev) ==
    IF ok
    THEN IF extra /\ ~prev
         THEN [converged |-> FALSE, converged_prev |-> TRUE, break |-> FALSE]
         ELSE [converged |-> TRUE, converged_prev |-> prev, break |-> TRUE]
    ELSE IF extra /\ prev
         THEN [converged |-> FALSE, converged_prev |-> FALSE, break |-> FALSE]
         ELSE [converged |-> FALSE, converged_prev |-> prev, break |-> FALSE]

\* ragf2.py 1242-1243: se = self.se = build_self_energy(...), then
\* se = self.se = run_diis(se, ...): the extrapolated one is kept
RAGF2NextSe(built, extrapolated) == extrapolated

\* ragf2.py 1238-1273: the result of fock_loop is unpacked, the self-energy
\* is rebuilt and DIIS-extrapolated, energies and deltas are evaluated and
\* the termination policy is applied.  An exception of fock_loop propagates.
R_IterEnd ==
    /\ kpc = "in_fock"
    /\ driver = "RAGF2"
    /\ fpc \in {"returned", "raised"}
    /\ IF fpc = "raised"
       THEN /\ kpc' = "raised"
            /\ UNCHANGED <<converged, converged_prev, e_tot, deltas, met,
                           self_gf, self_se, se_src>>
       ELSE \E e \in 0..MaxE, d0 \in Moment0Changes,
                 d1 \in Moment1Changes :
              LET d == _convergence_checks(e, e_tot, d0, d1)
                  p == RAGF2Policy(CriteriaMet(d), opts.extra_cycle,
                                   converged_prev)
              IN  /\ self_gf' = ret.gf
                  /\ self_se' = SelfEnergy(ret.se.chempot, ncycle)
                  /\ se_src' = RAGF2NextSe("built", "diis")
                  /\ e_tot' = e
                  /\ deltas' = d
                  /\ met' = Append(met, d[1] < ConvTol /\ d[2] < ConvTolT0
                                        /\ d[3] < ConvTolT1)
                  /\ converged' = p.converged
                  /\ converged_prev' = p.converged_prev
                  /\ kpc' = IF p.break THEN "finish" ELSE "loop"
    /\ FockLoopIdle
    /\ exc' = exc
    /\ UNCHANGED svars
    /\ UNCHANGED <<opts, driver, ncycle, se_prev, results>>

\* eagf2.py 300-304: solver.se = solver._combine_se(se_occ, se_vir); for
\* niter != 0 solver.run_diis(solver.se, None, diis, se_prev=se_prev) is
\* called as a statement: it builds a new self-energy and returns it, the
\* value is not assigned, solver.se stays the combined one
EAGF2NextSe(built, extrapolated) == built

\* eagf2.py 257-308: fragment moments are accumulated, the self-energy is
\* rebuilt with its default chemical potential 0.0, the Dyson equation is
\* solved once and fock_loop is called with return_fock=True
E_IterBegin ==
    /\ kpc = "loop"
    /\ driver = "EAGF2"
    /\ ncycle < LoopBudget
    /\ ncycle' = ncycle + 1
    /\ se_prev' = self_se
    /\ \E s \in Spectra :
         IF DysonLogFails(s, 0)
         THEN /\ kpc' = "raised"
              /\ exc' = "ValueError"
              /\ self_se' = SelfEnergy(0, ncycle)
              /\ se_src' = EAGF2NextSe("built", "diis")
              /\ UNCHANGED <<self_gf, fpc, gf, se, project_gf, return_fock,
                             niter1, niter2, inner, w, nerr, derr,
                             fl_converged, opt_tol, events, cycles, ret>>
         ELSE /\ kpc' = "in_fock"
              /\ self_se' = SelfEnergy(0, ncycle)
              /\ se_src' = EAGF2NextSe("built", "diis")
              /\ self_gf' = GreensFunction(s, 0, 0, TRUE)
              /\ FockLoopCall(GreensFunction(s, 0, 0, TRUE),
                              SelfEnergy(0, ncycle), TRUE, TRUE)
    /\ UNCHANGED svars
    /\ UNCHANGED <<opts, driver, converged, converged_prev, e_tot, deltas,
                   met, results>>

\* eagf2.py 330-334: the termination test of the embedded driver; returns
\* the new converged and whether the loop is left
EAGF2Policy(ok, extra, prev) ==
    [converged |-> ok, converged_prev |-> prev, break |-> ok]

\* eagf2.py 308-334: the result of fock_loop is unpacked into four names,
\* energies and deltas are evaluated, the loop is left on convergence
E_IterEnd ==
    /\ kpc = "in_fock"
    /\ driver = "EAGF2"
    /\ fpc \in {"returned", "raised"}
    /\ IF fpc = "raised"
       THEN /\ kpc' = "raised"
            /\ exc' = exc
            /\ UNCHANGED <<converged, converged_prev, e_tot, deltas, met,
                           self_gf, self_se, se_src>>
       ELSE IF ret.len # 4
       THEN /\ kpc' = "raised"
            /\ exc' = "ValueError"
            /\ UNCHANGED <<converged, converged_prev, e_tot, deltas, met,
                           self_gf, self_se, se_src>>
       ELSE \E e \in 0..MaxE, d0 \in Moment0Changes,
                 d1 \in Moment1Changes :
              LET d == _convergence_checks(e, e_tot, d0, d1)
                  p == EAGF2Policy(CriteriaMet(d), opts.extra_cycle,
                                   converged_prev)
              IN  /\ self_gf' = ret.gf
                  /\ self_se' = ret.se
                  /\ se_src' = se_src
                  /\ e_tot' = e
                  /\ deltas' = d
                  /\ met' = Append(met, d[1] < ConvTol /\ d[2] < ConvTolT0
                                        /\ d[3] < ConvTolT1)
                  /\ converged' = p.converged
                  /\ converged_prev' = p.converged_prev
                  /\ kpc' = IF p.break THEN "finish" ELSE "loop"
                  /\ exc' = exc
    /\ FockLoopIdle
    /\ UNCHANGED svars
    /\ UNCHANGED <<opts, driver, ncycle, se_prev, results>>

\* ragf2.py 1275-1297 (return se, gf, converged) and eagf2.py 336-372
\* (self.results = EAGF2Results(converged=converged, ...)): the loop was left
\* by break or ran out of cycles
K_Finish ==
    /\ kpc \in {"loop", "finish"}
    /\ kpc = "loop" => ncycle >= LoopBudget
    /\ results' = [set |-> TRUE, converged |-> converged, gf |-> self_gf,
                   se |-> self_se]
    /\ kpc' = "done"
    /\ UNCHANGED svars
    /\ UNCHANGED <<opts, driver, ncycle, converged, converged_prev, e_tot,
                   deltas, met, self_gf, self_se, se_src, se_prev>>
    /\ UNCHANGED fvars

\* ragf2.py 1198-1199, 1300-1334: kernel() with opts.as_adc returns
\* kernel_adc(), which builds the initial Green's function and self-energy
\* and calls fock_loop once
A_Start ==
    /\ kpc = "adc_start"
    /\ driver = "ADC"
    /\ self_gf' = build_init_greens_function
    /\ self_se' = SelfEnergy(build_init_greens_function.chempot, 0)
    /\ se_src' = "built"
    /\ kpc' = "in_fock"
    /\ FockLoopCall(build_init_greens_function,
                    SelfEnergy(build_init_greens_function.chempot, 0),
                    TRUE, FALSE)
    /\ UNCHANGED svars
    /\ UNCHANGED <<opts, driver, ncycle, converged, converged_prev, e_tot,
                   deltas, met, se_prev, results>>

\* ragf2.py 1334-1357: the result of fock_loop is unpacked into gf, se and
\* self.gf, self.se; return se, gf, True.  No statement of kernel_adc
\* assigns self.converged
A_End ==
    /\ kpc = "in_fock"
    /\ driver = "ADC"
    /\ fpc \in {"returned", "raised"}
    /\ IF fpc = "raised"
       THEN /\ kpc' = "raised"
            /\ UNCHANGED <<self_gf, self_se, results>>
       ELSE /\ self_gf' = ret.gf
            /\ self_se' = ret.se
            /\ results' = [set |-> TRUE, converged |-> TRUE, gf |-> ret.gf,
                           se |-> ret.se]
            /\ kpc' = "done"
    /\ FockLoopIdle
    /\ exc' = exc
    /\ UNCHANGED svars
    /\ UNCHANGED <<opts, driver, ncycle, converged, converged_prev, e_tot,
                   deltas, met, se_src, se_prev>>

kernel ==
    \/ A_Start
    \/ A_End
    \/ K_Start
    \/ R_IterBegin
    \/ R_IterEnd
    \/ E_IterBegin
    \/ E_IterEnd
    \/ K_Finish

\* ------------------------------------------------------------- options
OptionSets ==
    [ extra_cycle : BOOLEAN,
      max_cycle : 0..MaxCycle,
      fock_loop : BOOLEAN,
      max_cycle_outer : 0..MaxCycleOuter,
      max_cycle_inner : 0..MaxCycleInner ]

NoResults ==
    [set |-> FALSE, converged |-> FALSE, gf |-> build_init_greens_function,
     se |-> SelfEnergy(0, 0)]

\* fock_loop called directly by a user of the solver
InitFock ==
    /\ driver = "fock_loop"
    /\ opts \in { o \in OptionSets : o.extra_cycle /\ o.max_cycle = 0 }
    /\ fpc = "call"
    /\ gf = build_init_greens_function
    /\ se \in { SelfEnergy(c, 0) : c \in InputChempots }
    /\ project_gf \in BOOLEAN
    /\ return_fock \in BOOLEAN
    /\ kpc = "none"

\* kernel called on a freshly constructed RAGF2 or EAGF2 object
InitKernel ==
    /\ driver \in {"RAGF2", "EAGF2"}
    /\ opts \in { o \in OptionSets :
                    /\ o.max_cycle_outer = 1
                    /\ o.max_cycle_inner <= 1
                    /\ (~o.fock_loop => o.max_cycle_inner = 1) }
    /\ fpc = "idle"
    /\ gf = build_init_greens_function
    /\ se = SelfEnergy(0, 0)
    /\ project_gf = TRUE
    /\ return_fock = FALSE
    /\ kpc = "start"

\* kernel called on a freshly constructed RAGF2 object with opts.as_adc
InitAdc ==
    /\ driver = "ADC"
    /\ opts \in { o \in OptionSets :
                    /\ o.extra_cycle
                    /\ o.max_cycle = 0
                    /\ o.max_cycle_outer = 1
                    /\ o.max_cycle_inner = 1 }
    /\ fpc = "idle"
    /\ gf = build_init_greens_function
    /\ se = SelfEnergy(0, 0)
    /\ project_gf = TRUE
    /\ return_fock = FALSE
    /\ kpc = "adc_start"

Init ==
    /\ InitFock \/ InitKernel \/ InitAdc
    /\ niter1 = 0
    /\ niter2 = 0
    /\ inner = 0
    /\ w = <<>>
    /\ nerr = <<>>
    /\ derr = <<>>
    /\ fl_converged = FALSE
    /\ opt_tol = <<>>
    /\ events = <<>>
    /\ cycles = <<>>
    /\ ret = NoReturn
    /\ exc = "none"
    /\ ncycle = 0
    /\ converged = FALSE
    /\ converged_prev = FALSE
    /\ e_tot = mf_e_tot
    /\ deltas = <<>>
    /\ met = <<>>
    /\ self_gf = build_init_greens_function
    /\ self_se = SelfEnergy(0, 0)
    /\ se_src = "none"
    /\ se_prev = SelfEnergy(0, 0)
    /\ results = NoResults
    /\ FragIdle
    /\ CptIdle
    /\ PolesIdle
    /\ MpiIdle
    /\ EvalIdle
    /\ CorrIdle
    /\ ScfIdle

Next == fock_loop \/ kernel

Spec == Init /\ [][Next]_vars

\* ------------------------------------------- fragment loop of EAGF2.kernel
\* no solver call is running
MainIdle ==
    /\ driver = "none"
    /\ opts = [extra_cycle |-> TRUE, max_cycle |-> 0, fock_loop |-> TRUE,
               max_cycle_outer |-> 0, max_cycle_inner |-> 0]
    /\ fpc = "idle"
    /\ gf = build_init_greens_function
    /\ se = SelfEnergy(0, 0)
    /\ project_gf = TRUE
    /\ return_fock = FALSE
    /\ niter1 = 0
    /\ niter2 = 0
    /\ inner = 0
    /\ w = <<>>
    /\ nerr = <<>>
    /\ derr = <<>>
    /\ fl_converged = FALSE
    /\ opt_tol = <<>>
    /\ events = <<>>
    /\ cycles = <<>>
    /\ ret = NoReturn
    /\ exc = "none"
    /\ kpc = "none"
    /\ ncycle = 0
    /\ converged = FALSE
    /\ converged_prev = FALSE
    /\ e_tot = mf_e_tot
    /\ deltas = <<>>
    /\ met = <<>>
    /\ self_gf = build_init_greens_function
    /\ self_se = SelfEnergy(0, 0)
    /\ se_src = "none"
    /\ se_prev = SelfEnergy(0, 0)
    /\ results = NoResults

mvars == <<opts, driver, fvars, kvars>>

\* fragment lists an EAGF2 object can hold: symmetry children are added by
\* add_fragment(..., tsym_parent=self) after their parent
\* (core/fragment.py 588), so a child follows its parent, and a parent has
\* no parent itself
FragmentLists ==
    UNION { { f \in [1..n -> 0..n] :
                \A i \in 1..n : f[i] # 0 => (f[i] < i /\ f[f[i]] = 0) }
            : n \in 0..MaxFrag }

\* variant: the fragment check never fires
NoFragments_Never(n) == FALSE

\* eagf2.py 230: if self.nfrag == 0
NoFragments(n) == n = 0

\* eagf2.py 228-256: the nfrag check, solver set-up, converged = False
EF_Start ==
    /\ epc = "start"
    /\ IF NoFragments(Len(fragments))
       THEN /\ epc' = "raised"
            /\ e_exc' = "ValueError"
       ELSE /\ epc' = "iter_head"
            /\ e_exc' = e_exc
    /\ UNCHANGED <<fragments, e_max_cycle, niter, x, cluster_results,
                   frag_log, c_active, e_conv, e_results>>
    /\ UNCHANGED <<mvars, cvars, pvars, mpivars, xvars,
                   dvars, scfvars>>

\* eagf2.py 257-267: head of the outer loop, range(0, max_cycle+1), and
\* entry into the fragment loop
EF_IterHead ==
    /\ epc = "iter_head"
    /\ IF niter <= e_max_cycle
       THEN /\ x' = IF Len(fragments) >= 1 THEN 1 ELSE 0
            /\ epc' = IF Len(fragments) >= 1 THEN "frag" ELSE "iter_tail"
       ELSE /\ epc' = "finish"
            /\ x' = x
    /\ UNCHANGED <<fragments, e_max_cycle, niter, cluster_results, frag_log,
                   c_active, e_conv, e_results, e_exc>>
    /\ UNCHANGED <<mvars, cvars, pvars, mpivars, xvars,
                   dvars, scfvars>>

\* variant: every fragment runs its own build
FragBuilds_Always(p) == TRUE

\* eagf2.py 282: if frag.sym_parent is None
FragBuilds(p) == p = 0

\* eagf2.py 267-298: one fragment: either frag.kernel is run and its result
\* stored under the fragment's id, or the entry stored under the parent's id
\* is read (KeyError if there is none); then c_active is read
\* (UnboundLocalError if no fragment has run frag.kernel in this call)
EF_Fragment ==
    /\ epc = "frag"
    /\ LET p == fragments[x]
           more == IF x < Len(fragments) THEN "frag" ELSE "iter_tail"
       IN  IF FragBuilds(p)
           THEN /\ cluster_results' = [cluster_results EXCEPT ![x] = niter]
                /\ c_active' = x
                /\ frag_log' = Append(frag_log,
                      [niter |-> niter, frag |-> x, op |-> "kernel", owner |-> x])
                /\ epc' = more
                /\ x' = IF x < Len(fragments) THEN x + 1 ELSE x
                /\ e_exc' = e_exc
           ELSE IF p = 0 \/ cluster_results[p] = -1
           THEN /\ epc' = "raised"
                /\ e_exc' = "KeyError"
                /\ UNCHANGED <<cluster_results, c_active, frag_log, x>>
           ELSE IF c_active = 0
           THEN /\ epc' = "raised"
                /\ e_exc' = "UnboundLocalError"
                /\ UNCHANGED <<cluster_results, c_active, frag_log, x>>
           ELSE /\ frag_log' = Append(frag_log,
                      [niter |-> niter, frag |-> x, op |-> "reuse", owner |-> p])
                /\ epc' = more
                /\ x' = IF x < Len(fragments) THEN x + 1 ELSE x
                /\ e_exc' = e_exc
                /\ UNCHANGED <<cluster_results, c_active>>
    /\ UNCHANGED <<fragments, e_max_cycle, niter, e_conv, e_results>>
    /\ UNCHANGED <<mvars, cvars, pvars, mpivars, xvars,
                   dvars, scfvars>>

\* eagf2.py 300-334: self-energy from the accumulated moments, Dyson solve,
\* Fock loop and convergence test (modelled step by step in E_IterBegin and
\* E_IterEnd); here only the outcome of the test matters
EF_IterTail ==
    /\ epc = "iter_tail"
    /\ \E ok \in BOOLEAN :
         IF ok
         THEN /\ e_conv' = TRUE
              /\ epc' = "finish"
              /\ niter' = niter
         ELSE /\ e_conv' = e_conv
              /\ epc' = "iter_head"
              /\ niter' = niter + 1
    /\ UNCHANGED <<fragments, e_max_cycle, x, cluster_results, frag_log,
                   c_active, e_results, e_exc>>
    /\ UNCHANGED <<mvars, cvars, pvars, mpivars, xvars,
                   dvars, scfvars>>

\* eagf2.py 336-372: self.results = EAGF2Results(converged=converged, ...)
EF_Finish ==
    /\ epc = "finish"
    /\ e_results' = e_conv
    /\ epc' = "done"
    /\ UNCHANGED <<fragments, e_max_cycle, niter, x, cluster_results,
                   frag_log, c_active, e_conv, e_exc>>
    /\ UNCHANGED <<mvars, cvars, pvars, mpivars, xvars,
                   dvars, scfvars>>

\* EAGF2.kernel called on a freshly constructed object (eagf2.py 193-194:
\* cluster_results = {}, results = None)
InitFrag ==
    /\ MainIdle
    /\ CptIdle
    /\ PolesIdle
    /\ MpiIdle
    /\ EvalIdle
    /\ CorrIdle
    /\ ScfIdle
    /\ fragments \in FragmentLists
    /\ e_max_cycle \in 0..MaxCycle
    /\ epc = "start"
    /\ niter = 0
    /\ x = 0
    /\ cluster_results = [i \in 1..Len(fragments) |-> -1]
    /\ frag_log = <<>>
    /\ c_active = 0
    /\ e_conv = FALSE
    /\ e_results = "None"
    /\ e_exc = "none"

NextFrag ==
    \/ EF_Start
    \/ EF_IterHead
    \/ EF_Fragment
    \/ EF_IterTail
    \/ EF_Finish

SpecFrag == InitFrag /\ [][NextFrag]_vars

\* ------------------------- chemical-potential search of optimize_cpt
\* for ntry in range(5) (solver2.py 184)
CptTries == 5

RECURSIVE Pow2(_)
Pow2(n) == IF n = 0 THEN 1 ELSE 2 * Pow2(n - 1)

\* cpt_radius in the integer units of bounds
CptRadius == Pow2(CptTries)

\* values of cpt_guess, in units of cpt_radius
CptGuesses == {-1, 0, 1}

\* solver2.py 163-182: the first bracket, from the sign of err0
FirstBracket(guess, err0_negative) ==
    IF err0_negative
    THEN << guess * CptRadius, guess * CptRadius + CptRadius >>
    ELSE << guess * CptRadius - CptRadius, guess * CptRadius >>

\* solver2.py 155-182: err0 = electron_err(cpt_guess); the solver may not
\* converge (ConvergenceError propagates), the guess may already be within
\* tolerance (CptFound: return), else the first bracket is set
CP_First ==
    /\ cpt_pc = "start"
    /\ \E out \in {"CptFound", "ConvergenceError", "negative", "nonnegative"},
          guess \in CptGuesses :
         CASE out = "CptFound" ->
                /\ cpt_pc' = "returned"
                /\ UNCHANGED <<bounds, cpt_exc>>
           [] out = "ConvergenceError" ->
                /\ cpt_pc' = "raised"
                /\ cpt_exc' = "ConvergenceError"
                /\ UNCHANGED bounds
           [] OTHER ->
                /\ cpt_pc' = "loop"
                /\ bounds' = FirstBracket(guess, out = "negative")
                /\ UNCHANGED cpt_exc
    /\ UNCHANGED <<ntry, attempts, errmsg>>
    /\ UNCHANGED <<mvars, evars, pvars, mpivars, xvars,
                   dvars, scfvars>>

\* solver2.py 196-198: except ValueError: bounds *= 2
Widen(b) == << 2 * b[1], 2 * b[2] >>

\* solver2.py 200-202: except ConvergenceError: bounds /= 2
Narrow(b) == << b[1] \div 2, b[2] \div 2 >>

\* solver2.py 184-203: one pass of the for loop: brentq is called on
\* bounds; it ends by CptFound (break), by ValueError (no sign change in the
\* bracket), by ConvergenceError (cluster solver not converged), or returns
\* converged without CptFound (RuntimeError)
CP_Try ==
    /\ cpt_pc = "loop"
    /\ ntry < CptTries
    /\ \E out \in {"CptFound", "ValueError", "ConvergenceError", "converged"} :
         /\ attempts' = Append(attempts, [bounds |-> bounds, out |-> out])
         /\ CASE out = "CptFound" ->
                  /\ cpt_pc' = "returned"
                  /\ UNCHANGED <<ntry, bounds, cpt_exc>>
              [] out = "ValueError" ->
                  /\ bounds' = Widen(bounds)
                  /\ ntry' = ntry + 1
                  /\ UNCHANGED <<cpt_pc, cpt_exc>>
              [] out = "ConvergenceError" ->
                  /\ bounds' = Narrow(bounds)
                  /\ ntry' = ntry + 1
                  /\ UNCHANGED <<cpt_pc, cpt_exc>>
              [] OTHER ->
                  /\ cpt_pc' = "raised"
                  /\ cpt_exc' = "RuntimeError"
                  /\ UNCHANGED <<ntry, bounds>>
    /\ UNCHANGED errmsg
    /\ UNCHANGED <<mvars, evars, pvars, mpivars, xvars,
                   dvars, scfvars>>

\* solver2.py 204-207: the else clause of the for loop: errmsg is formatted
\* from bounds[0], bounds[1] and raised as RuntimeError
CP_Exhausted ==
    /\ cpt_pc = "loop"
    /\ ntry >= CptTries
    /\ errmsg' = bounds
    /\ cpt_pc' = "raised"
    /\ cpt_exc' = "RuntimeError"
    /\ UNCHANGED <<ntry, bounds, attempts>>
    /\ UNCHANGED <<mvars, evars, pvars, mpivars, xvars,
                   dvars, scfvars>>

InitCpt ==
    /\ MainIdle
    /\ FragIdle
    /\ PolesIdle
    /\ MpiIdle
    /\ EvalIdle
    /\ CorrIdle
    /\ ScfIdle
    /\ cpt_pc = "start"
    /\ ntry = 0
    /\ bounds = <<>>
    /\ attempts = <<>>
    /\ errmsg = <<>>
    /\ cpt_exc = "none"

NextCpt ==
    \/ CP_First
    \/ CP_Try
    \/ CP_Exhausted

SpecCpt == InitCpt /\ [][NextCpt]_vars

\* ------------------------------------- self-energy poles from moments
\* a pole: energy relative to the chemical potential (below: -1, at: 0)
\* and squared norm of its coupling vector (below, at, above weight_tol)
Poles ==
    [e : {SeChempot - 1, SeChempot}, wt : (WeightTol - 1)..(WeightTol + 1)]

\* moments (t[0], t[1]) of one sector with nmom_lanczos = 0: the nphys
\* eigenpairs found by the two eigh calls of _build_se_from_moments
\* (ragf2.py 411-419), energies ascending; a direction masked by w > eps
\* has weight 0.  Damping and DIIS act on the moments (ragf2.py 592-601),
\* so the energies of a sector are not tied to its side of chempot
SectorMoments ==
    { t \in [1..NPhys -> Poles] :
        \A i \in 1..(NPhys - 1) : t[i].e <= t[i + 1].e }

\* variant: nothing is pruned
remove_uncoupled_Keep(sq, tol) == sq

\* AuxiliarySpace.remove_uncoupled(tol): keep the poles with
\* norm(v)**2 >= tol (ragf2.py 427, 443)
remove_uncoupled(sq, tol) == SelectSeq(sq, LAMBDA q : q.wt >= tol)

\* ragf2.py 405-429 with nmom_lanczos = 0: poles from the moments, pruned
_build_se_from_moments(t, chempot) ==
    PoleSelfEnergy(remove_uncoupled(t, WeightTol), chempot)

\* agf2.aux.combine(se_occ, se_vir): poles concatenated (ragf2.py 436)
combine(a, b) == PoleSelfEnergy(a.poles \o b.poles, a.chempot)

\* variant: the second pruning uses twice the tolerance
_combine_se_Stricter(a, b) ==
    PoleSelfEnergy(remove_uncoupled(combine(a, b).poles, 2 * WeightTol),
                   a.chempot)

\* ragf2.py 432-445 with nmom_projection = None: combine, prune again
_combine_se(a, b) ==
    PoleSelfEnergy(remove_uncoupled(combine(a, b).poles, WeightTol),
                   a.chempot)

\* SelfEnergy.get_occupied(): poles with energy < chempot (ragf2.py 586)
get_occupied(sf) ==
    PoleSelfEnergy(SelectSeq(sf.poles, LAMBDA q : q.e < sf.chempot), sf.chempot)

\* SelfEnergy.get_virtual(): poles with energy >= chempot (ragf2.py 587)
get_virtual(sf) ==
    PoleSelfEnergy(SelectSeq(sf.poles, LAMBDA q : q.e >= sf.chempot), sf.chempot)

\* the poles of a self-energy as a set
PoleSetOf(sf) == { sf.poles[i] : i \in 1..Len(sf.poles) }

\* ragf2.py 518-543 / 585-601 / eagf2.py 296-298: the moments of the hole
\* sector for the next construction come from the numerics
P_MomentsOcc ==
    /\ ppc \in {"start", "split"}
    /\ piter < MaxCycle
    /\ piter' = piter + 1
    /\ t_occ' \in SectorMoments
    /\ t_vir' = <<>>
    /\ se_occ' = PoleSelfEnergy(<<>>, SeChempot)
    /\ se_vir' = PoleSelfEnergy(<<>>, SeChempot)
    /\ se_all' = PoleSelfEnergy(<<>>, SeChempot)
    /\ split_occ' = PoleSelfEnergy(<<>>, SeChempot)
    /\ split_vir' = PoleSelfEnergy(<<>>, SeChempot)
    /\ ppc' = "t_occ"
    /\ UNCHANGED <<mvars, evars, cvars, mpivars, xvars,
                   dvars, scfvars>>

\* ragf2.py 546-559 / 585-601 / eagf2.py 296-298: the moments of the
\* particle sector
P_MomentsVir ==
    /\ ppc = "t_occ"
    /\ t_vir' \in SectorMoments
    /\ ppc' = "moments"
    /\ UNCHANGED <<piter, t_occ, se_occ, se_vir, se_all, split_occ, split_vir>>
    /\ UNCHANGED <<mvars, evars, cvars, mpivars, xvars,
                   dvars, scfvars>>

\* ragf2.py 605-606 (run_diis), 544 and 560 (build_self_energy),
\* eagf2.py 300: both sectors are built with a common chemical potential
P_Build ==
    /\ ppc = "moments"
    /\ se_occ' = _build_se_from_moments(t_occ, SeChempot)
    /\ se_vir' = _build_se_from_moments(t_vir, SeChempot)
    /\ ppc' = "built"
    /\ UNCHANGED <<piter, t_occ, t_vir, se_all, split_occ, split_vir>>
    /\ UNCHANGED <<mvars, evars, cvars, mpivars, xvars,
                   dvars, scfvars>>

\* ragf2.py 608 (run_diis), 573 (build_self_energy), eagf2.py 301
P_Combine ==
    /\ ppc = "built"
    /\ se_all' = _combine_se(se_occ, se_vir)
    /\ ppc' = "combined"
    /\ UNCHANGED <<piter, t_occ, t_vir, se_occ, se_vir, split_occ, split_vir>>
    /\ UNCHANGED <<mvars, evars, cvars, mpivars, xvars,
                   dvars, scfvars>>

\* ragf2.py 585-588: run_diis splits the combined self-energy by pole
\* energy to take the moments of its two sectors
P_Split ==
    /\ ppc = "combined"
    /\ split_occ' = get_occupied(se_all)
    /\ split_vir' = get_virtual(se_all)
    /\ ppc' = "split"
    /\ UNCHANGED <<piter, t_occ, t_vir, se_occ, se_vir, se_all>>
    /\ UNCHANGED <<mvars, evars, cvars, mpivars, xvars,
                   dvars, scfvars>>

InitPoles ==
    /\ MainIdle
    /\ FragIdle
    /\ CptIdle
    /\ MpiIdle
    /\ EvalIdle
    /\ CorrIdle
    /\ ScfIdle
    /\ ppc = "start"
    /\ piter = 0
    /\ t_occ = <<>>
    /\ t_vir = <<>>
    /\ se_occ = PoleSelfEnergy(<<>>, SeChempot)
    /\ se_vir = PoleSelfEnergy(<<>>, SeChempot)
    /\ se_all = PoleSelfEnergy(<<>>, SeChempot)
    /\ split_occ = PoleSelfEnergy(<<>>, SeChempot)
    /\ split_vir = PoleSelfEnergy(<<>>, SeChempot)

NextPoles ==
    \/ P_MomentsOcc
    \/ P_MomentsVir
    \/ P_Build
    \/ P_Combine
    \/ P_Split

SpecPoles == InitPoles /\ [][NextPoles]_vars

\* ------------------------------- explicit moment loop of _build_moments
\* the ranks of the workers
Workers == 0..(mpi_size - 1)

\* range(start, stop, step) as a sequence
RECURSIVE Range(_, _, _)
Range(start, stop, step) ==
    IF start >= stop THEN <<>>
    ELSE <<start>> \o Range(start + step, stop, step)

\* variant: every worker walks the whole range from its rank on
nrange_NoStride(rank, stop) == Range(rank, stop, 1)

\* pyscf.agf2.mpi_helper.nrange(stop) on the worker of this rank:
\* range(start+rank, stop, step*size) with start = 0, step = 1
nrange(rank, stop) == Range(rank, stop, mpi_size)

\* what the loop body adds to t for outer index i (ragf2.py 378-397); the
\* values are chosen so that a sum tells which indices went into it
Contribution(i) == Pow2(i)

RECURSIVE SumSeq(_)
SumSeq(sq) == IF sq = <<>> THEN 0 ELSE sq[1] + SumSeq(Tail(sq))

\* the tensor one worker alone computes: the sum over all i
SerialMoments == SumSeq([k \in 1..eo_size |-> Contribution(k - 1)])

\* ragf2.py 377-397: one pass of the loop body on a worker
M_Contract(r) ==
    /\ wpc[r] = "loop"
    /\ wpos[r] <= Len(nrange(r, eo_size))
    /\ wt' = [wt EXCEPT ![r] = @ + Contribution(nrange(r, eo_size)[wpos[r]])]
    /\ contracted' = Append(contracted, <<r, nrange(r, eo_size)[wpos[r]]>>)
    /\ wpos' = [wpos EXCEPT ![r] = @ + 1]
    /\ UNCHANGED <<mpi_size, eo_size, wpc, sendbuf>>
    /\ UNCHANGED <<mvars, evars, cvars, pvars, xvars,
                   dvars, scfvars>>

\* ragf2.py 377, 399: the generator is exhausted, the worker calls
\* mpi_helper.barrier()
M_LoopEnd(r) ==
    /\ wpc[r] = "loop"
    /\ wpos[r] > Len(nrange(r, eo_size))
    /\ wpc' = [wpc EXCEPT ![r] = "barrier"]
    /\ UNCHANGED <<mpi_size, eo_size, wpos, wt, sendbuf, contracted>>
    /\ UNCHANGED <<mvars, evars, cvars, pvars, xvars,
                   dvars, scfvars>>

\* ragf2.py 399: comm.Barrier() lets a worker go on once every worker has
\* called it
M_Barrier(r) ==
    /\ wpc[r] = "barrier"
    /\ \A q \in Workers : wpc[q] # "loop"
    /\ wpc' = [wpc EXCEPT ![r] = "allreduce"]
    /\ UNCHANGED <<mpi_size, eo_size, wpos, wt, sendbuf, contracted>>
    /\ UNCHANGED <<mvars, evars, cvars, pvars, xvars,
                   dvars, scfvars>>

\* ragf2.py 400: the worker enters allreduce_safe_inplace(t) with its t
M_AllreduceEnter(r) ==
    /\ wpc[r] = "allreduce"
    /\ sendbuf' = [sendbuf EXCEPT ![r] = wt[r]]
    /\ wpc' = [wpc EXCEPT ![r] = "reducing"]
    /\ UNCHANGED <<mpi_size, eo_size, wpos, wt, contracted>>
    /\ UNCHANGED <<mvars, evars, cvars, pvars, xvars,
                   dvars, scfvars>>

\* ragf2.py 400-402: the all-reduce completes on a worker once every worker
\* has entered it, leaves the sum in t, and _build_moments returns t
M_AllreduceReturn(r) ==
    /\ wpc[r] = "reducing"
    /\ \A q \in Workers : sendbuf[q] # -1
    /\ wt' = [wt EXCEPT ![r] = SumSeq([k \in 1..mpi_size |-> sendbuf[k - 1]])]
    /\ wpc' = [wpc EXCEPT ![r] = "returned"]
    /\ UNCHANGED <<mpi_size, eo_size, wpos, sendbuf, contracted>>
    /\ UNCHANGED <<mvars, evars, cvars, pvars, xvars,
                   dvars, scfvars>>

\* ragf2.py 368-375: every worker enters the else branch with t = zeros
InitMpi ==
    /\ MainIdle
    /\ FragIdle
    /\ CptIdle
    /\ PolesIdle
    /\ EvalIdle
    /\ CorrIdle
    /\ ScfIdle
    /\ mpi_size \in 1..MaxWorkers
    /\ eo_size \in 0..MaxEo
    /\ wpc = [r \in Workers |-> "loop"]
    /\ wpos = [r \in Workers |-> 1]
    /\ wt = [r \in Workers |-> 0]
    /\ sendbuf = [r \in Workers |-> -1]
    /\ contracted = <<>>

NextMpi ==
    \E r \in Workers :
        \/ M_Contract(r)
        \/ M_LoopEnd(r)
        \/ M_Barrier(r)
        \/ M_AllreduceEnter(r)
        \/ M_AllreduceReturn(r)

SpecMpi == InitMpi /\ [][NextMpi]_vars

\* ------------------- evaluations of the electron error in optimize_cpt
\* trial chemical potentials, in units that make cpt * p_frag an integer
\* multiple of p_frag
TrialCpts == {-1, 0, 1}

\* the content of self.opts.v_ext: <<>> for None, else the content of the
\* array object it names
VExtContent(ref, carr, farr) ==
    IF ref = "None" THEN <<>>
    ELSE IF ref = "caller" THEN <<carr>> ELSE <<farr>>

\* solver2.py 132-137: 'self.opts.v_ext += -cpt * p_frag' adds to the array
\* object that self.opts.v_ext names; 'self.opts.v_ext = -cpt * p_frag'
\* binds a new array
ShiftInPlace(ref) == ref # "None"

\* solver2.py 126-137: electron_err(cpt) is entered (a call with cpt = 0
\* after err0 is known returns err0 at once and touches nothing); v_ext0
\* takes the reference held by self.opts.v_ext, and for cpt != 0 the shift
\* -cpt * p_frag is applied
X_Enter ==
    /\ ee_pc = "idle"
    /\ nruns < MaxEvals
    /\ \E c \in TrialCpts :
         /\ ~(c = 0 /\ err0_set)
         /\ cpt' = c
         /\ v_ext0' = v_ext
         /\ v_ext_before' = VExtContent(v_ext, caller_arr, fresh_arr)
         /\ IF c = 0
            THEN UNCHANGED <<v_ext, caller_arr, fresh_arr>>
            ELSE IF ShiftInPlace(v_ext)
            THEN /\ caller_arr' = IF v_ext = "caller" THEN caller_arr - c
                                  ELSE caller_arr
                 /\ fresh_arr' = IF v_ext = "fresh" THEN fresh_arr - c
                                 ELSE fresh_arr
                 /\ v_ext' = v_ext
            ELSE /\ v_ext' = "fresh"
                 /\ fresh_arr' = -c
                 /\ caller_arr' = caller_arr
    /\ ee_pc' = "shifted"
    /\ UNCHANGED <<solver_converged, nruns, ee_result, ee_results,
                   err0_set, accepted, ee_ret>>
    /\ UNCHANGED <<mvars, evars, cvars, pvars, mpivars,
                   dvars, scfvars>>

\* solver2.py 138-141: results = kernel_orig(eris=eris, **kwargs), then
\* self.opts.v_ext = v_ext0
X_Solve ==
    /\ ee_pc = "shifted"
    /\ nruns' = nruns + 1
    /\ ee_results' = nruns + 1
    /\ solver_converged' \in BOOLEAN
    /\ v_ext' = v_ext0
    /\ ee_pc' = "solved"
    /\ UNCHANGED <<caller_arr, fresh_arr, v_ext0, v_ext_before, cpt,
                   ee_result, err0_set, accepted, ee_ret>>
    /\ UNCHANGED <<mvars, evars, cvars, pvars, mpivars,
                   dvars, scfvars>>

\* solver2.py 142-154 and the handlers at 157-161, 192-203, 211: an
\* unconverged solver raises ConvergenceError, which leaves the kernel from
\* the first run and is caught inside the retry loop; an error within
\* tolerance raises CptFound, on which the kernel returns result; else the
\* error goes back to the caller of electron_err
X_Check ==
    /\ ee_pc = "solved"
    /\ IF ~solver_converged
       THEN /\ ee_pc' = IF err0_set THEN "idle" ELSE "raised"
            /\ UNCHANGED <<err0_set, accepted, ee_ret>>
       ELSE \E within \in BOOLEAN :
              IF within
              THEN /\ accepted' = nruns
                   /\ ee_ret' = <<ee_result>>
                   /\ ee_pc' = "returned"
                   /\ UNCHANGED err0_set
              ELSE /\ err0_set' = TRUE
                   /\ ee_pc' = "idle"
                   /\ UNCHANGED <<accepted, ee_ret>>
    /\ UNCHANGED <<v_ext, caller_arr, fresh_arr, v_ext0, v_ext_before, cpt,
                   solver_converged, nruns, ee_result, ee_results>>
    /\ UNCHANGED <<mvars, evars, cvars, pvars, mpivars,
                   dvars, scfvars>>

\* solver2.py 184-208: the retry loop ends without CptFound: every exit is
\* a RuntimeError
X_GiveUp ==
    /\ ee_pc = "idle"
    /\ err0_set
    /\ ee_pc' = "raised"
    /\ UNCHANGED <<v_ext, caller_arr, fresh_arr, v_ext0, v_ext_before, cpt,
                   solver_converged, nruns, ee_result, ee_results,
                   err0_set, accepted, ee_ret>>
    /\ UNCHANGED <<mvars, evars, cvars, pvars, mpivars,
                   dvars, scfvars>>

\* solver2.py 114-124: the installed kernel starts with result = None,
\* err0 = None, iterations = 0; self.opts.v_ext is None or an array set by
\* the caller
InitEval ==
    /\ MainIdle
    /\ FragIdle
    /\ CptIdle
    /\ PolesIdle
    /\ MpiIdle
    /\ CorrIdle
    /\ ScfIdle
    /\ ee_pc = "idle"
    /\ v_ext \in {"None", "caller"}
    /\ caller_arr = 0
    /\ fresh_arr = 0
    /\ v_ext0 = "None"
    /\ v_ext_before = <<>>
    /\ cpt = 0
    /\ solver_converged = FALSE
    /\ nruns = 0
    /\ ee_result = 0
    /\ ee_results = 0
    /\ err0_set = FALSE
    /\ accepted = 0
    /\ ee_ret = <<>>

NextEval ==
    \/ X_Enter
    \/ X_Solve
    \/ X_Check
    \/ X_GiveUp

SpecEval == InitEval /\ [][NextEval]_vars

\* ------------------------------------ dispatch of externally_correct
\* correction types an entry can carry; "other" stands for any string that
\* is none of the four known types
CorrTypes ==
    {"external", "external-fciv", "external-ccsdv", "delta-tailor", "other"}

\* truth value of a Python string: only the empty string is false
Truthy(str) == str # ""

\* coupling.py 542-549: the if / elif chain that picks the routine.  The
\* first condition is the expression  corrtype == 'external' or
\* 'external-fciv',  whose second operand is a string constant
Dispatch(corrtype) ==
    IF corrtype = "external" \/ Truthy("external-fciv")
    THEN [routine |-> "_get_delta_t_for_extcorr", include_t3v |-> TRUE]
    ELSE IF corrtype = "external-ccsdv"
    THEN [routine |-> "_get_delta_t_for_extcorr", include_t3v |-> FALSE]
    ELSE IF corrtype = "delta-tailor"
    THEN [routine |-> "_get_delta_t_for_delta_tailor", include_t3v |-> FALSE]
    ELSE [routine |-> "ValueError", include_t3v |-> FALSE]

\* coupling.py 537-573: one entry of external_corrections: the routine is
\* picked and run, the amplitudes are projected and added, and for
\* 'external-ccsdv' the T3*V term is added from the parent's integrals
D_Entry ==
    /\ d_pc = "loop"
    /\ dpos < Len(external_corrections)
    /\ LET corrtype == external_corrections[dpos + 1]
           d == Dispatch(corrtype)
       IN  IF d.routine = "ValueError"
           THEN /\ d_pc' = "raised"
                /\ UNCHANGED <<dpos, calls>>
           ELSE /\ calls' = Append(calls,
                     [corrtype |-> corrtype, routine |-> d.routine,
                      include_t3v |-> d.include_t3v,
                      t3v_later |-> corrtype = "external-ccsdv"])
                /\ dpos' = dpos + 1
                /\ d_pc' = d_pc
    /\ UNCHANGED external_corrections
    /\ UNCHANGED <<mvars, evars, cvars, pvars, mpivars, xvars, scfvars>>

\* coupling.py 578-597: the loop is over, the callback is returned
D_Return ==
    /\ d_pc = "loop"
    /\ dpos >= Len(external_corrections)
    /\ d_pc' = "returned"
    /\ UNCHANGED <<external_corrections, dpos, calls>>
    /\ UNCHANGED <<mvars, evars, cvars, pvars, mpivars, xvars, scfvars>>

\* externally_correct(solver, external_corrections) is called
InitCorr ==
    /\ MainIdle
    /\ FragIdle
    /\ CptIdle
    /\ PolesIdle
    /\ MpiIdle
    /\ EvalIdle
    /\ ScfIdle
    /\ d_pc = "loop"
    /\ external_corrections \in
          UNION { [1..n -> CorrTypes] : n \in 0..MaxCorr }
    /\ dpos = 0
    /\ calls = <<>>

NextCorr ==
    \/ D_Entry
    \/ D_Return

SpecCorr == InitCorr /\ [][NextCorr]_vars

\* --------------------------------------- SCF kernel under scf_with_mpi
\* the ranks of mpi.world
Ranks == 0..(scf_size - 1)

\* what mpi_kernel broadcasts, in order (mpi/scf.py 33-40)
BcastFields ==
    IF has_df
    THEN <<"res", "_cderi", "converged", "e_tot", "mo_energy", "mo_occ",
           "mo_coeff">>
    ELSE <<"res", "converged", "e_tot", "mo_energy", "mo_occ", "mo_coeff">>

\* res and the attributes of mf on one rank, all with the same value
MfData(val) ==
    [f \in {"res", "_cderi", "converged", "e_tot", "mo_energy", "mo_occ",
            "mo_coeff"} |-> val]

\* variant: every rank runs the SCF
RunsKernel_All(r) == TRUE

\* mpi/scf.py 18: if mpi.rank == mpi_rank
RunsKernel(r) == r = mpi_rank

\* mpi/scf.py 10-11, 43-46: scf_with_mpi on one rank: with mpi falsy mf is
\* returned as it is, else mf.kernel is replaced and mf.with_mpi is set
S_Wrap(r) ==
    /\ spc[r] = "init"
    /\ wrapped' = [wrapped EXCEPT ![r] = scf_mpi]
    /\ spc' = [spc EXCEPT ![r] = "ready"]
    /\ UNCHANGED <<scf_mpi, scf_size, mpi_rank, has_df, mfdata, bpos, kruns>>
    /\ UNCHANGED <<mvars, evars, cvars, pvars, mpivars, xvars, dvars>>

\* mf.kernel() on an mf that was not wrapped: the original SCF kernel runs
\* on the calling rank and returns or raises
S_PlainKernel(r) ==
    /\ spc[r] = "ready"
    /\ ~wrapped[r]
    /\ kruns' = Append(kruns, r)
    /\ \E ok \in BOOLEAN :
         IF ok
         THEN /\ mfdata' = [mfdata EXCEPT ![r] = MfData("scf")]
              /\ spc' = [spc EXCEPT ![r] = "returned"]
         ELSE /\ mfdata' = mfdata
              /\ spc' = [spc EXCEPT ![r] = "raised"]
    /\ UNCHANGED <<scf_mpi, scf_size, mpi_rank, has_df, wrapped, bpos>>
    /\ UNCHANGED <<mvars, evars, cvars, pvars, mpivars, xvars, dvars>>

\* mpi/scf.py 18-29: the rank mpi_rank runs kernel_orig, which returns or
\* raises (the exception leaves mpi_kernel); the other ranks set res = None;
\* then mpi.world.barrier() is called
S_Kernel(r) ==
    /\ spc[r] = "ready"
    /\ wrapped[r]
    /\ IF RunsKernel(r)
       THEN /\ kruns' = Append(kruns, r)
            /\ \E ok \in BOOLEAN :
                 IF ok
                 THEN /\ mfdata' = [mfdata EXCEPT ![r] = MfData("scf")]
                      /\ spc' = [spc EXCEPT ![r] = "barrier"]
                 ELSE /\ mfdata' = mfdata
                      /\ spc' = [spc EXCEPT ![r] = "raised"]
       ELSE /\ mfdata' = [mfdata EXCEPT ![r]["res"] = "None"]
            /\ spc' = [spc EXCEPT ![r] = "barrier"]
            /\ kruns' = kruns
    /\ UNCHANGED <<scf_mpi, scf_size, mpi_rank, has_df, wrapped, bpos>>
    /\ UNCHANGED <<mvars, evars, cvars, pvars, mpivars, xvars, dvars>>

\* mpi/scf.py 29: the barrier lets a rank go on once every rank of the
\* communicator has called it
S_Barrier(r) ==
    /\ spc[r] = "barrier"
    /\ \A q \in Ranks : spc[q] \in {"barrier", "bcast", "returned"}
    /\ spc' = [spc EXCEPT ![r] = "bcast"]
    /\ UNCHANGED <<scf_mpi, scf_size, mpi_rank, has_df, wrapped, mfdata, bpos,
                   kruns>>
    /\ UNCHANGED <<mvars, evars, cvars, pvars, mpivars, xvars, dvars>>

\* mpi/scf.py 33-40: one bcast(..., root=mpi_rank): the root hands over its
\* value and goes on; another rank completes the call once the root has
\* made it, and stores the root's value
S_Bcast(r) ==
    /\ spc[r] = "bcast"
    /\ bpos[r] < Len(BcastFields)
    /\ r # mpi_rank =>
          /\ spc[mpi_rank] \in {"bcast", "returned"}
          /\ bpos[mpi_rank] > bpos[r]
    /\ mfdata' = [mfdata EXCEPT ![r][BcastFields[bpos[r] + 1]] =
                      mfdata[mpi_rank][BcastFields[bpos[r] + 1]]]
    /\ bpos' = [bpos EXCEPT ![r] = @ + 1]
    /\ UNCHANGED <<scf_mpi, scf_size, mpi_rank, has_df, spc, wrapped, kruns>>
    /\ UNCHANGED <<mvars, evars, cvars, pvars, mpivars, xvars, dvars>>

\* mpi/scf.py 41: return res
S_Return(r) ==
    /\ spc[r] = "bcast"
    /\ bpos[r] >= Len(BcastFields)
    /\ spc' = [spc EXCEPT ![r] = "returned"]
    /\ UNCHANGED <<scf_mpi, scf_size, mpi_rank, has_df, wrapped, mfdata, bpos,
                   kruns>>
    /\ UNCHANGED <<mvars, evars, cvars, pvars, mpivars, xvars, dvars>>

\* every rank holds its own mf, not yet converged, and is about to call
\* scf_with_mpi(mpi, mf, mpi_rank) and then mf.kernel(); without MPI there
\* is one process
InitScf ==
    /\ MainIdle
    /\ FragIdle
    /\ CptIdle
    /\ PolesIdle
    /\ MpiIdle
    /\ EvalIdle
    /\ CorrIdle
    /\ scf_mpi \in BOOLEAN
    /\ scf_size \in 1..MaxWorkers
    /\ ~scf_mpi => scf_size = 1
    /\ mpi_rank \in Ranks
    /\ has_df \in BOOLEAN
    /\ spc = [r \in Ranks |-> "init"]
    /\ wrapped = [r \in Ranks |-> FALSE]
    /\ mfdata = [r \in Ranks |-> MfData("stale")]
    /\ bpos = [r \in Ranks |-> 0]
    /\ kruns = <<>>

NextScf ==
    \E r \in Ranks :
        \/ S_Wrap(r)
        \/ S_PlainKernel(r)
        \/ S_Kernel(r)
        \/ S_Barrier(r)
        \/ S_Bcast(r)
        \/ S_Return(r)

SpecScf == InitScf /\ [][NextScf]_vars

\* every rank keeps running while it can take a step: the ranks are
\* processes of their own
SpecScfLive == InitScf /\ [][NextScf]_vars /\ WF_vars(NextScf)

\* ---------------------------------------------------------- properties
Last(q) == q[Len(q)]

IsKernel == driver \in {"RAGF2", "EAGF2"}

\* the kernel call is over: it returned or an exception left it
KernelEnded == kpc \in {"done", "raised"}

\* the fock_loop call is over: it returned or an exception left it
FockLoopEnded == fpc \in {"returned", "raised"}

\* C1: in RAGF2.kernel with extra_cycle, converged is set at iteration n only
\* if the three criteria were met at iteration n-1 and at iteration n, and
\* an iteration that misses the criteria leaves the latch converged_prev
\* cleared
C1_ExtraCycleLatch ==
    (driver = "RAGF2" /\ opts.extra_cycle) =>
        /\ converged =>
             /\ Len(met) >= 2
             /\ met[Len(met)]
             /\ met[Len(met) - 1]
        /\ (Len(met) >= 1 /\ ~Last(met)) => ~converged_prev

\* C1 witness: criteria met at iterations 1 and 3 but not 2 left the driver
\* unconverged after three iterations
C1_Witness ==
    /\ driver = "RAGF2"
    /\ opts.extra_cycle
    /\ kpc = "done"
    /\ met = <<TRUE, FALSE, TRUE>>
    /\ ~results.converged

\* C2: in EAGF2.kernel with extra_cycle (the default), converged is set only
\* after the criteria were met on two consecutive outer iterations
C2_EmbeddedExtraCycle ==
    (driver = "EAGF2" /\ opts.extra_cycle /\ converged) =>
        /\ Len(met) >= 2
        /\ met[Len(met)]
        /\ met[Len(met) - 1]

\* C3: for every max_cycle the outer driver ends converged or out of cycles
\* (it does not end in an exception) after at most max_cycle+1 iterations
C3_EndsWithinBudget ==
    (IsKernel /\ KernelEnded) =>
        /\ kpc = "done"
        /\ results.set
        /\ ncycle <= opts.max_cycle + 1

\* C4: when an outer driver sets converged, the three deltas of that
\* iteration are each below their own tolerance; with extra_cycle disabled
\* the first iteration meeting all three ends the loop converged
C4_OwnTolerances ==
    IsKernel =>
        /\ converged =>
             /\ deltas # <<>>
             /\ deltas[1] < ConvTol
             /\ deltas[2] < ConvTolT0
             /\ deltas[3] < ConvTolT1
        /\ ~opts.extra_cycle =>
             \A i \in 1..Len(met) :
                met[i] => (i = Len(met) /\ converged /\ kpc \in {"finish", "done"})

\* C4 witness: extra_cycle disabled, an iteration with the zeroth-moment
\* delta between conv_tol and conv_tol_t0 ended the loop converged after an
\* iteration that missed the criteria
C4_Witness ==
    /\ IsKernel
    /\ ~opts.extra_cycle
    /\ converged
    /\ Len(met) = 2
    /\ deltas[2] >= ConvTol

\* C5: if no iteration satisfies the convergence policy the outer driver
\* raises no error and returns the current self-energy and Green's function
\* with the convergence flag False
C5_SoftFailure ==
    (IsKernel /\ KernelEnded /\ ~converged) =>
        /\ kpc = "done"
        /\ exc = "none"
        /\ ~results.converged
        /\ results.gf = self_gf
        /\ results.se = self_se

\* C6: the Green's function returned by fock_loop is built from the
\* eigenpairs of the last Dyson solve of that call, converged or not,
\* projected or not
C6_GfFromLastSolve ==
    fpc = "returned" =>
        /\ ret.gf.solve = NSolve
        /\ NSolve >= 1 => (ret.gf.w = w /\ ret.gf.proj = project_gf)

\* C6 witness: an unconverged call with several Dyson solves returned
C6_Witness ==
    /\ fpc = "returned"
    /\ opts.fock_loop
    /\ ~ret.converged
    /\ NSolve >= 3
    /\ project_gf

\* C7: for every max_cycle_outer and max_cycle_inner (zero included), a Fock
\* loop that does not meet its tolerances returns (gf, se) with
\* converged=False and raises no error
C7_NoErrorUnconverged ==
    (opts.fock_loop /\ FockLoopEnded /\ ~fl_converged) =>
        /\ fpc = "returned"
        /\ exc = "none"
        /\ ~ret.converged

\* Dyson solves of every outer cycle in an event log: at most limit each
RECURSIVE SolvesWithin(_, _, _)
SolvesWithin(evs, n, limit) ==
    IF evs = <<>> THEN TRUE
    ELSE IF Head(evs) = "minimize_chempot" THEN SolvesWithin(Tail(evs), 0, limit)
    ELSE IF Head(evs) = "solve_dyson"
         THEN n + 1 <= limit /\ SolvesWithin(Tail(evs), n + 1, limit)
    ELSE SolvesWithin(Tail(evs), n, limit)

\* C8: with the Fock loop enabled, fock_loop returns converged=True iff some
\* outer cycle ended with both criteria met; it stops at the first such
\* cycle, otherwise performs exactly max_cycle_outer outer cycles, each of
\* at most max_cycle_inner Dyson solves
C8_ConvergedIffCycleMet ==
    opts.fock_loop =>
        /\ SolvesWithin(events, 0, opts.max_cycle_inner)
        /\ fpc = "returned" =>
             /\ ret.converged <=> (\E i \in 1..Len(cycles) : cycles[i])
             /\ \A i \in 1..Len(cycles) : cycles[i] => i = Len(cycles)
             /\ ~ret.converged => Len(cycles) = opts.max_cycle_outer
             /\ CountIn(events, "minimize_chempot") = Len(cycles)

\* C8 witness: the second outer cycle met both criteria after the first
\* missed them
C8_Witness ==
    /\ fpc = "returned"
    /\ opts.fock_loop
    /\ ret.converged
    /\ cycles = <<FALSE, TRUE>>

\* electron-count error of a Green's function at the chemical potential it
\* carries: trace of its density matrix minus the target
NelecError(g) == NelecOf(g) - Nelec

C10_DysonOnly ==
    (fpc = "returned" /\ ~opts.fock_loop) =>
        /\ events = <<"solve_dyson", "binsearch_chempot">>
        /\ ret.gf.chempot = binsearch_chempot(w).chempot
        /\ ret.se.chempot = binsearch_chempot(w).chempot
        /\ ret.gf.w = w
        /\ ret.converged

\* C10 witness: a disabled-loop call returned although the bisection left a
\* nonzero electron-count error
C10_Witness ==
    /\ fpc = "returned"
    /\ ~opts.fock_loop
    /\ binsearch_chempot(w).error # 0
    /\ ret.converged

\* C11: in every outer iteration after the first self-energy build, in both
\* drivers, the self-energy that becomes the current one is the one rebuilt
\* from the DIIS-extrapolated moments
C11_DiisSeCurrent ==
    /\ (driver = "RAGF2" /\ Len(met) >= 1) => se_src = "diis"
    /\ (driver = "EAGF2" /\ ncycle >= 2) => se_src = "diis"

\* C12 as stated: in every outer cycle of the Fock loop the tolerance handed
\* to the chemical-potential minimisation is larger than conv_tol_nelec
C12_InnerTolLooser ==
    opt_tol # <<>> => opt_tol[1] > ConvTolNelec * opt_tol[2]

\* C12 amended: the tolerance handed over is conv_tol_nelec times
\* conv_tol_nelec_factor, which with the default factor is smaller than
\* conv_tol_nelec
C12_InnerTolTighter ==
    opt_tol # <<>> =>
        /\ opt_tol[1] * NelecFactorDen = ConvTolNelec * NelecFactorNum * opt_tol[2]
        /\ opt_tol[1] < ConvTolNelec * opt_tol[2]

\* C12 witness: a second outer cycle has called the minimisation
C12_Witness ==
    /\ opts.fock_loop
    /\ niter1 >= 2
    /\ opt_tol # <<>>
    /\ CountIn(events, "minimize_chempot") >= 2

\* C13: solve_dyson returns the eigenpairs wherever the eigenvalues lie
\* relative to the chemical potential of the self-energy: a call of
\* solve_dyson on finite input never ends in an exception
C13_SolveDysonReturns ==
    (events # <<>> /\ Last(events) = "solve_dyson") => fpc # "raised"

\* C14: in each outer iteration of the embedded driver frag.kernel is run
\* only for fragments without symmetry parent; a fragment with a parent
\* runs no build and uses the result stored under its parent's id
C14_ParentBuildsOnly ==
    \A k \in 1..Len(frag_log) :
        LET v == frag_log[k]
        IN  /\ v.op = "kernel" => (fragments[v.frag] = 0 /\ v.owner = v.frag)
            /\ fragments[v.frag] # 0 =>
                 (v.op = "reuse" /\ v.owner = fragments[v.frag])

\* C14 witness: in the second outer iteration a child has used its
\* parent's stored result
C14_Witness ==
    \E k \in 1..Len(frag_log) :
        /\ frag_log[k].niter = 1
        /\ frag_log[k].op = "reuse"
        /\ fragments[frag_log[k].frag] # 0

\* C15: EAGF2.kernel with no fragments raises before any outer iteration or
\* fragment computation and leaves self.results None
C15_NoFragmentsRaises ==
    (epc \notin {"none", "start"} /\ Len(fragments) = 0) =>
        /\ epc = "raised"
        /\ e_exc = "ValueError"
        /\ frag_log = <<>>
        /\ niter = 0
        /\ x = 0
        /\ e_results = "None"

\* C15 witness: a call without fragments has raised
C15_Witness ==
    /\ Len(fragments) = 0
    /\ epc = "raised"
    /\ e_exc = "ValueError"
    /\ e_max_cycle >= 1

\* width of a search interval
Width(b) == b[2] - b[1]

\* C16: each failure of the root finder to bracket a root doubles the
\* search interval and retries; at most 5 attempts are made; when the
\* budget is exhausted the error raised names the interval that was
\* attempted
C16_BracketRetries ==
    /\ Len(attempts) <= CptTries
    /\ \A k \in 1..Len(attempts) :
          (attempts[k].out = "ValueError" /\ k < Len(attempts)) =>
              Width(attempts[k + 1].bounds) = 2 * Width(attempts[k].bounds)
    /\ errmsg # <<>> =>
          /\ cpt_exc = "RuntimeError"
          /\ Len(attempts) = CptTries
          /\ errmsg = Last(attempts).bounds

\* C17: combining hole- and particle-sector self-energies built by
\* _build_se_from_moments with a common chemical potential and splitting the
\* result by pole energy recovers the two sets of poles
C17_SplitRecovers ==
    ppc = "split" =>
        /\ PoleSetOf(split_occ) = PoleSetOf(se_occ)
        /\ PoleSetOf(split_vir) = PoleSetOf(se_vir)

\* every pole of a self-energy has squared coupling norm >= weight_tol
AllCoupled(sf) == \A i \in 1..Len(sf.poles) : sf.poles[i].wt >= WeightTol

\* C18: with nmom_lanczos = 0 and no projection, after every construction
\* each sector has at most nact poles, the combined self-energy at most
\* 2*nact, and every retained pole has squared coupling norm >= weight_tol
C18_PoleCountBounded ==
    /\ Len(se_occ.poles) <= NPhys
    /\ Len(se_vir.poles) <= NPhys
    /\ Len(se_all.poles) <= 2 * NPhys
    /\ AllCoupled(se_occ)
    /\ AllCoupled(se_vir)
    /\ AllCoupled(se_all)

\* C18 witness: a later construction whose moments contain an uncoupled
\* direction has been combined
C18_Witness ==
    /\ ppc = "combined"
    /\ piter >= 2
    /\ \E i \in 1..NPhys : t_occ[i].wt < WeightTol
    /\ Len(se_all.poles) >= NPhys

\* C19: pruning an already pruned self-energy with the same tolerance
\* changes nothing, so the pruning of _combine_se removes no pole of the
\* sector self-energies pruned by _build_se_from_moments
C19_PruneIdempotent ==
    /\ ppc \in {"built", "combined", "split"} =>
          /\ remove_uncoupled(se_occ.poles, WeightTol) = se_occ.poles
          /\ remove_uncoupled(se_vir.poles, WeightTol) = se_vir.poles
    /\ ppc \in {"combined", "split"} =>
          /\ se_all.poles = se_occ.poles \o se_vir.poles
          /\ remove_uncoupled(se_all.poles, WeightTol) = se_all.poles

\* C19 witness: the first pruning removed a pole, a pole just at the
\* tolerance was kept, and the sectors have been combined
C19_Witness ==
    /\ ppc = "combined"
    /\ Len(se_occ.poles) < NPhys
    /\ \E i \in 1..Len(se_all.poles) : se_all.poles[i].wt = WeightTol

\* how often outer index i was contracted, by any worker
TimesContracted(i) ==
    Cardinality({ k \in 1..Len(contracted) : contracted[k][2] = i })

\* C20: in the explicit loop of _build_moments every outer index is
\* contracted by exactly one worker, no worker returns before every worker
\* has reached the barrier and entered the all-reduce, and every worker
\* returns the tensor a single worker would compute
C20_MomentsReduced ==
    /\ \A i \in 0..(eo_size - 1) : TimesContracted(i) <= 1
    /\ (\A q \in Workers : wpc[q] # "loop") =>
          \A i \in 0..(eo_size - 1) : TimesContracted(i) = 1
    /\ \A r \in Workers :
          wpc[r] = "returned" =>
              /\ \A q \in Workers : wpc[q] \in {"reducing", "returned"}
              /\ wt[r] = SerialMoments

\* C20 witness: two or more workers, one of them with two indices, have all
\* returned
C20_Witness ==
    /\ mpi_size >= 2
    /\ eo_size > mpi_size
    /\ \A r \in Workers : wpc[r] = "returned"

\* the self-energy object that was solver.se when the running iteration
\* began.  RAGF2.kernel hands it to fock_loop (ragf2.py 1238), whose local
\* se names that one object to the end: minimize_chempot returns its
\* argument and 'se.chempot = ...' assigns to it.  EAGF2.kernel replaces
\* solver.se by a new object (eagf2.py 301) before fock_loop runs, so the
\* old one keeps the state copied into se_prev
StartSe == IF driver = "RAGF2" /\ kpc = "in_fock" THEN se ELSE se_prev

\* C21: during an outer iteration the SelfEnergy object that was current
\* at its start is not modified in place: it still has the state that
\* copy.deepcopy recorded at the loop head
C21_StartSeNotMutated ==
    kpc = "in_fock" => StartSe = se_prev

\* an outer iteration of either driver ends with its convergence test
IterationEnds == kpc = "in_fock" /\ kpc' \in {"loop", "finish"}

\* C22: in every outer iteration the energy delta used in the convergence
\* test is |E_tot after the iteration - E_tot at its start|, whatever the
\* previous total energy is, 0 included
C22_EnergyDelta ==
    [][IterationEnds => deltas'[1] = Abs(e_tot' - e_tot)]_vars

\* C23: fock_loop called with return_fock=True returns the four values
\* (gf, se, converged, fock) under every option setting, so the four-way
\* unpacking of the embedded driver never fails
C23_ReturnsFourValues ==
    (fpc = "returned" /\ return_fock) => ret.len = 4

\* the converged attribute of the object whose driver ran: EAGF2.converged
\* is a property returning self.results.converged (eagf2.py 213-215), the
\* attribute of a RAGF2 object is set by __init__ and by RAGF2.kernel
SolverConverged ==
    IF driver = "EAGF2" THEN results.converged ELSE converged

\* C24: after any driver returns (RAGF2.kernel, kernel_adc reached through
\* as_adc, EAGF2.kernel) the converged attribute of the object equals the
\* convergence flag the driver returned or recorded in its results
C24_ConvergedAttribute ==
    (driver \in {"RAGF2", "EAGF2", "ADC"} /\ kpc = "done") =>
        SolverConverged = results.converged

\* a symmetry child is processed: the fragment loop passes a fragment with a
\* parent without raising
ChildProcessed ==
    /\ epc = "frag"
    /\ fragments[x] # 0
    /\ epc' # "raised"

\* C25: what is used to partition and accumulate the moments of a symmetry
\* child (the result record and the active-orbital basis c_active) comes
\* from the computation of the child's own parent in the same iteration
C25_ChildUsesOwnParent ==
    [][ChildProcessed =>
           /\ cluster_results[fragments[x]] = niter
           /\ c_active = fragments[x]]_vars

\* C26: when the chemical-potential search succeeds the replaced kernel
\* returns the solver results of the accepted evaluation, and it returns
\* normally only in that case
C26_ReturnsAcceptedResults ==
    ee_pc = "returned" =>
        /\ accepted # 0
        /\ ee_ret = <<accepted>>

\* C27: each evaluation of the electron error leaves self.opts.v_ext equal
\* to its value before the evaluation, whether it was None or an array
C27_VExtRestored ==
    ee_pc = "solved" =>
        VExtContent(v_ext, caller_arr, fresh_arr) = v_ext_before

\* C30: externally_correct picks the routine by the type of each entry:
\* 'external' and 'external-fciv' compute the delta amplitudes with the
\* T3*V term, 'external-ccsdv' without it (it is added later from the
\* parent's integrals), 'delta-tailor' uses the delta-tailor routine, and
\* any other type raises ValueError
C30_DispatchByType ==
    /\ \A k \in 1..Len(calls) :
          LET c == calls[k]
          IN  /\ c.corrtype \in {"external", "external-fciv"} =>
                    /\ c.routine = "_get_delta_t_for_extcorr"
                    /\ c.include_t3v
                    /\ ~c.t3v_later
              /\ c.corrtype = "external-ccsdv" =>
                    /\ c.routine = "_get_delta_t_for_extcorr"
                    /\ ~c.include_t3v
                    /\ c.t3v_later
              /\ c.corrtype = "delta-tailor" =>
                    c.routine = "_get_delta_t_for_delta_tailor"
              /\ c.corrtype # "other"
    /\ d_pc = "raised" => external_corrections[dpos + 1] = "other"

\* the broadcast fields of rank r equal the root's
HoldsRootData(r) ==
    \A k \in 1..Len(BcastFields) :
        /\ mfdata[r][BcastFields[k]] = mfdata[mpi_rank][BcastFields[k]]
        /\ mfdata[r][BcastFields[k]] = "scf"

\* C28: with MPI active the original SCF kernel runs once, on rank mpi_rank
\* only; no broadcast starts before every rank has reached the barrier;
\* after the call every rank holds the root's converged, e_tot, mo_energy,
\* mo_occ, mo_coeff and return value.  With mpi falsy scf_with_mpi returns
\* the mean-field object unmodified
C28_ScfOnRootOnly ==
    /\ scf_mpi =>
          /\ Len(kruns) <= 1
          /\ \A k \in 1..Len(kruns) : kruns[k] = mpi_rank
          /\ \A r \in Ranks :
                spc[r] \in {"bcast", "returned"} =>
                    /\ kruns = <<mpi_rank>>
                    /\ \A q \in Ranks :
                          spc[q] \in {"barrier", "bcast", "returned"}
          /\ \A r \in Ranks : spc[r] = "returned" => HoldsRootData(r)
    /\ ~scf_mpi => \A r \in Ranks : ~wrapped[r]

\* C28 witness: three or more ranks, the root not rank 0, have all
\* returned from the wrapped kernel
C28_Witness ==
    /\ scf_mpi
    /\ scf_size >= 3
    /\ mpi_rank # 0
    /\ \A r \in Ranks : spc[r] = "returned"

\* C29: no rank stays blocked forever in the wrapped kernel: whatever the
\* original SCF kernel does on the root, every rank that entered eventually
\* returns or raises
C29_NoRankBlocked ==
    <>(\A r \in DOMAIN spc : spc[r] \in {"returned", "raised"})

=============================================================================
